---------------------------- MODULE Spec2Model ----------------------------
(***************************************************************************)
(* SingKANA: lyrics-to-kana conversion (singkana_core.js v1.9) and the     *)
(* comparison helpers of the studio page (convertToStandardKana,           *)
(* romanToKanaStandard, highlightDifferences).                             *)
(*                                                                         *)
(* A JavaScript string is modelled as a sequence of UTF-16 code units      *)
(* (integers), so that case folding, the hiragana -> katakana shift        *)
(* (+ 0x60) and the regular expressions' character classes are computed    *)
(* as the code computes them.                                              *)
(***************************************************************************)
EXTENDS Integers, Sequences, FiniteSets, TLC

(***************************************************************************)
(* Code units.  L: ASCII lower-case letters, P: punctuation and quote      *)
(* variants, W: white space, K: katakana, H: hiragana, X: other scripts.   *)
(***************************************************************************)
L ==
  [
    a |-> 97, b |-> 98, c |-> 99, d |-> 100, e |-> 101, f |-> 102, g |-> 103,
    h |-> 104, i |-> 105, j |-> 106, k |-> 107, l |-> 108, m |-> 109, n |-> 110,
    o |-> 111, p |-> 112, q |-> 113, r |-> 114, s |-> 115, t |-> 116, u |-> 117,
    v |-> 118, w |-> 119, x |-> 120, y |-> 121, z |-> 122
  ]

P ==
  [
    bang |-> 33, dquote |-> 34, amp |-> 38, apos |-> 39, lparen |-> 40,
    comma |-> 44, colon |-> 58, lt |-> 60, gt |-> 62, under |-> 95,
    backtick |-> 96, acute |-> 180, lsquo |-> 8216, rsquo |-> 8217,
    low9 |-> 8218, hirev9 |-> 8219, ldquo |-> 8220, rdquo |-> 8221,
    lowdq |-> 8222, note |-> 9834, fwapos |-> 65287, fwcolon |-> 65306,
    fwbacktick |-> 65344, semi |-> 59, rparen |-> 41, slash |-> 47,
    lbrack |-> 91, rbrack |-> 93, pipe |-> 124, eq |-> 61, touten |-> 12289,
    kuten |-> 12290, fwbang |-> 65281, fwcomma |-> 65292, fwquest |-> 65311,
    fwpipe |-> 65372
  ]

W ==
  [
    TAB |-> 9, LF |-> 10, VT |-> 11, FF |-> 12, CR |-> 13, SP |-> 32,
    NBSP |-> 160, IDSP |-> 12288, BOM |-> 65279
  ]

X == [hangulGa |-> 44032, kanjiAi |-> 24859]

K ==
  [
    sA |-> 12449, A |-> 12450, sI |-> 12451, I |-> 12452, sU |-> 12453, U |-> 12454,
    sE |-> 12455, E |-> 12456, sO |-> 12457, O |-> 12458, KA |-> 12459, KI |-> 12461,
    GI |-> 12462, KU |-> 12463, GU |-> 12464, GE |-> 12466, KO |-> 12467, GO |-> 12468,
    SA |-> 12469, ZA |-> 12470, SI |-> 12471, ZI |-> 12472, SU |-> 12473, ZU |-> 12474,
    ZE |-> 12476, TA |-> 12479, DA |-> 12480, sTU |-> 12483, TU |-> 12484, TE |-> 12486,
    DE |-> 12487, TO |-> 12488, DO |-> 12489, NA |-> 12490, NI |-> 12491, NE |-> 12493,
    HA |-> 12495, BI |-> 12499, HU |-> 12501, BU |-> 12502, PU |-> 12503, HO |-> 12507,
    MA |-> 12510, MI |-> 12511, MU |-> 12512, ME |-> 12513, MO |-> 12514, sYA |-> 12515,
    YA |-> 12516, YU |-> 12518, RA |-> 12521, RI |-> 12522, RU |-> 12523, RE |-> 12524,
    RO |-> 12525, WA |-> 12527, N |-> 12531, VU |-> 12532, CHO |-> 12540
  ]

H ==
  [
    sA |-> 12353, A |-> 12354, I |-> 12356, U |-> 12358, E |-> 12360, O |-> 12362,
    KU |-> 12367, GU |-> 12368, SI |-> 12375, ZI |-> 12376, SU |-> 12377, ZU |-> 12378,
    TI |-> 12385, TO |-> 12392, DO |-> 12393, HA |-> 12399, HU |-> 12405, BU |-> 12406,
    PU |-> 12407, MU |-> 12416, sYO |-> 12423, RU |-> 12427, N |-> 12435, VU |-> 12436,
    sTU |-> 12387
  ]

(***************************************************************************)
(* Character classes of the regular expressions.                           *)
(***************************************************************************)
IsUpper(c) == c \in 65..90
IsLower(c) == c \in 97..122
IsDigit(c) == c \in 48..57
\* [A-Za-z]
IsLatin(c) == IsUpper(c) \/ IsLower(c)
\* [A-Za-z0-9]
IsAlnum(c) == IsLatin(c) \/ IsDigit(c)
\* \w
IsWordChar(c) == IsAlnum(c) \/ c = P.under
\* \s, and the characters String.prototype.trim removes
IsSpace(c) ==
  \/ c \in {W.TAB, W.LF, W.VT, W.FF, W.CR, W.SP, W.NBSP, W.IDSP, W.BOM}
  \/ c \in {5760, 8232, 8233, 8239, 8287}
  \/ c \in 8192..8202
\* [ぁ-ん]
IsHiragana(c) == c \in 12353..12435

(***************************************************************************)
(* String primitives.                                                      *)
(***************************************************************************)
\* String.prototype.toLowerCase on the characters the model uses: only the
\* ASCII capitals have a lower-case form.
LowerChar(c) == IF IsUpper(c) THEN c + 32 ELSE c
toLowerCase(s) == [i \in 1..Len(s) |-> LowerChar(s[i])]
UpperChar(c) == IF IsLower(c) THEN c - 32 ELSE c
toUpperCase(s) == [i \in 1..Len(s) |-> UpperChar(s[i])]

MatchAt(s, pat, i) ==
  /\ i + Len(pat) - 1 <= Len(s)
  /\ \A k \in 1..Len(pat) : s[i + k - 1] = pat[k]

\* s.replace(new RegExp(from, "g"), to) for a literal, non-empty pattern:
\* leftmost matches, not overlapping, the replacement not rescanned.
RECURSIVE ReplaceAllFrom(_, _, _, _)
ReplaceAllFrom(s, from, to, i) ==
  IF i > Len(s) THEN <<>>
  ELSE IF MatchAt(s, from, i)
       THEN to \o ReplaceAllFrom(s, from, to, i + Len(from))
       ELSE <<s[i]>> \o ReplaceAllFrom(s, from, to, i + 1)
ReplaceAll(s, from, to) == ReplaceAllFrom(s, from, to, 1)

\* s.replace(/[set]/g, to): every character of the class becomes `to`.
RECURSIVE ReplaceClassFrom(_, _, _, _)
ReplaceClassFrom(s, set, to, i) ==
  IF i > Len(s) THEN <<>>
  ELSE (IF s[i] \in set THEN to ELSE <<s[i]>>) \o ReplaceClassFrom(s, set, to, i + 1)
ReplaceClass(s, set, to) == ReplaceClassFrom(s, set, to, 1)

\* Number of leading / trailing white-space characters of s.
RECURSIVE LeadSpaces(_, _)
LeadSpaces(s, i) ==
  IF i <= Len(s) /\ IsSpace(s[i]) THEN 1 + LeadSpaces(s, i + 1) ELSE 0
RECURSIVE TrailSpaces(_, _)
TrailSpaces(s, i) ==
  IF i >= 1 /\ IsSpace(s[i]) THEN 1 + TrailSpaces(s, i - 1) ELSE 0

trimEnd(s) == SubSeq(s, 1, Len(s) - TrailSpaces(s, Len(s)))
trimStart(s) == SubSeq(s, 1 + LeadSpaces(s, 1), Len(s))
trim(s) == trimStart(trimEnd(s))

\* a.join(sep)
RECURSIVE JoinFrom(_, _, _)
JoinFrom(a, sep, i) ==
  IF i > Len(a) THEN <<>>
  ELSE IF i = Len(a) THEN a[i]
  ELSE a[i] \o sep \o JoinFrom(a, sep, i + 1)
Join(a, sep) == JoinFrom(a, sep, 1)

\* s.split("\n"): the pieces between line feeds, empty pieces kept.
RECURSIVE SplitLinesFrom(_, _, _)
SplitLinesFrom(s, start, i) ==
  IF i > Len(s) THEN <<SubSeq(s, start, Len(s))>>
  ELSE IF s[i] = W.LF
       THEN <<SubSeq(s, start, i - 1)>> \o SplitLinesFrom(s, i + 1, i + 1)
       ELSE SplitLinesFrom(s, start, i + 1)
SplitLines(s) == SplitLinesFrom(s, 1, 1)

\* s.split(/\s+/): the pieces between maximal white-space runs; a run at
\* the start or the end of s leaves an empty piece there.
RECURSIVE SplitSpacesFrom(_, _, _)
SplitSpacesFrom(s, start, i) ==
  IF i > Len(s) THEN <<SubSeq(s, start, Len(s))>>
  ELSE IF IsSpace(s[i])
       THEN LET n == LeadSpaces(s, i)
            IN  <<SubSeq(s, start, i - 1)>> \o SplitSpacesFrom(s, i + n, i + n)
       ELSE SplitSpacesFrom(s, start, i + 1)
SplitSpaces(s) == SplitSpacesFrom(s, 1, 1)

(***************************************************************************)
(* 0. NORMALIZE                                                            *)
(***************************************************************************)
\* .replace(/ +/g, " ")
RECURSIVE CollapseSpacesFrom(_, _)
CollapseSpacesFrom(s, i) ==
  IF i > Len(s) THEN <<>>
  ELSE IF s[i] = W.SP /\ i > 1 /\ s[i - 1] = W.SP
       THEN CollapseSpacesFrom(s, i + 1)
       ELSE <<s[i]>> \o CollapseSpacesFrom(s, i + 1)

\* Mutant: the runs of spaces are collapsed before the tabs and the
\* ideographic spaces have become spaces.
normalizeTextCollapseFirst(text) ==
  IF text = <<>> THEN <<>>
  ELSE LET t1 == ReplaceAll(text, <<W.CR, W.LF>>, <<W.LF>>)
           t2 == ReplaceClass(t1, {W.CR}, <<W.LF>>)
           t3 == CollapseSpacesFrom(t2, 1)
           t4 == ReplaceClass(t3, {W.IDSP}, <<W.SP>>)
           t5 == ReplaceClass(t4, {W.TAB}, <<W.SP>>)
       IN  trim(t5)

normalizeText(text) ==
  IF text = <<>> THEN <<>>
  ELSE LET t1 == ReplaceAll(text, <<W.CR, W.LF>>, <<W.LF>>)
           t2 == ReplaceClass(t1, {W.CR}, <<W.LF>>)
           t3 == ReplaceClass(t2, {W.IDSP}, <<W.SP>>)
           t4 == ReplaceClass(t3, {W.TAB}, <<W.SP>>)
           t5 == CollapseSpacesFrom(t4, 1)
       IN  trim(t5)

hasLatin(str) == \E i \in 1..Len(str) : IsLatin(str[i])

hasHangul(str) == \E i \in 1..Len(str) : str[i] \in 44032..55203

\* .replace(/\b'n\b/gi, " and "): an apostrophe after a word character,
\* then n or N, then no word character.
AposNAt(t, i) ==
  /\ i > 1 /\ IsWordChar(t[i - 1])
  /\ i + 1 <= Len(t)
  /\ t[i] = P.apos
  /\ LowerChar(t[i + 1]) = L.n
  /\ (i + 2 > Len(t) \/ ~IsWordChar(t[i + 2]))
RECURSIVE ExpandAposN(_, _)
ExpandAposN(t, i) ==
  IF i > Len(t) THEN <<>>
  ELSE IF AposNAt(t, i)
       THEN <<W.SP, L.a, L.n, L.d, W.SP>> \o ExpandAposN(t, i + 2)
       ELSE <<t[i]>> \o ExpandAposN(t, i + 1)

\* .replace(/([A-Za-z])'([A-Za-z])/g, "$1$2"): the match consumes both
\* letters, so the second one does not start another match.
RECURSIVE DropInnerApos(_, _)
DropInnerApos(t, i) ==
  IF i > Len(t) THEN <<>>
  ELSE IF i + 2 <= Len(t) /\ IsLatin(t[i]) /\ t[i + 1] = P.apos /\ IsLatin(t[i + 2])
       THEN <<t[i], t[i + 2]>> \o DropInnerApos(t, i + 3)
       ELSE <<t[i]>> \o DropInnerApos(t, i + 1)

\* Length of the run of apostrophes starting at i.
RECURSIVE AposRun(_, _)
AposRun(t, i) ==
  IF i <= Len(t) /\ t[i] = P.apos THEN 1 + AposRun(t, i + 1) ELSE 0

\* .replace(/([A-Za-z])'+\b/g, "$1"): a letter, a run of apostrophes, and a
\* word boundary after the run, which (the run ending in a non-word
\* character) is there only when a word character follows the whole run.
RECURSIVE DropAposBeforeWord(_, _)
DropAposBeforeWord(t, i) ==
  IF i > Len(t) THEN <<>>
  ELSE LET n == AposRun(t, i + 1)
       IN  IF IsLatin(t[i]) /\ n > 0 /\ i + n + 1 <= Len(t) /\ IsWordChar(t[i + n + 1])
           THEN <<t[i]>> \o DropAposBeforeWord(t, i + n + 1)
           ELSE <<t[i]>> \o DropAposBeforeWord(t, i + 1)

\* .replace(/'+/g, " ")
RECURSIVE AposRunsToSpace(_, _)
AposRunsToSpace(t, i) ==
  IF i > Len(t) THEN <<>>
  ELSE IF t[i] = P.apos
       THEN <<W.SP>> \o AposRunsToSpace(t, i + AposRun(t, i))
       ELSE <<t[i]>> \o AposRunsToSpace(t, i + 1)

ApostropheVariants ==
  {P.rsquo, P.lsquo, P.hirev9, P.low9, P.backtick, P.fwapos, P.fwbacktick, P.acute}

normalizeLyricLine(line) ==
  IF line = <<>> THEN <<>>
  ELSE LET t1 == ReplaceClass(line, ApostropheVariants, <<P.apos>>)
           t2 == ReplaceClass(t1, {P.ldquo, P.rdquo, P.lowdq}, <<P.dquote>>)
           t3 == ExpandAposN(t2, 1)
           t4 == DropInnerApos(t3, 1)
           t5 == DropAposBeforeWord(t4, 1)
           t6 == AposRunsToSpace(t5, 1)
       IN  ReplaceClass(t6, {P.fwcolon}, <<P.colon>>)

\* Mutant: the hiragana are left as they are.
toKatakanaSkipped(str) == str

\* ひらがな → カタカナ
toKatakana(str) ==
  [i \in 1..Len(str) |-> IF IsHiragana(str[i]) THEN str[i] + 96 ELSE str[i]]

(***************************************************************************)
(* 1. BASIC WORD OVERRIDES: <<lower-case word, katakana>>                  *)
(***************************************************************************)
WORD_OVERRIDES ==
  <<
    <<<<L.y, L.o, L.u>>, <<K.YU, K.CHO>>>>,  \* you: ユー
    <<<<L.y, L.o, L.u, L.r>>, <<K.YU, K.A>>>>,  \* your: ユア
    <<<<L.i>>, <<K.A, K.I>>>>,  \* i: アイ
    <<<<L.m, L.e>>, <<K.MI, K.CHO>>>>,  \* me: ミー
    <<<<L.m, L.y>>, <<K.MA, K.I>>>>,  \* my: マイ
    <<<<L.w, L.e>>, <<K.U, K.sI, K.CHO>>>>,  \* we: ウィー
    <<<<L.t, L.h, L.e, L.y>>, <<K.ZE, K.I>>>>,  \* they: ゼイ
    <<<<L.t, L.h, L.e, L.m>>, <<K.ZE, K.MU>>>>,  \* them: ゼム
    <<<<L.i, L.t>>, <<K.I, K.sTU, K.TO>>>>,  \* it: イット
    <<<<L.l, L.e, L.t>>, <<K.RE, K.sTU, K.TO>>>>,  \* let: レット
    <<<<L.g, L.o>>, <<K.GO, K.CHO>>>>,  \* go: ゴー
    <<<<L.c, L.o, L.m, L.e>>, <<K.KA, K.MU>>>>,  \* come: カム
    <<<<L.c, L.o, L.m, L.i, L.n, L.g>>, <<K.KA, K.MI, K.N, K.GU>>>>,  \* coming: カミング
    <<<<L.r, L.u, L.n>>, <<K.RA, K.N>>>>,  \* run: ラン
    <<<<L.r, L.u, L.n, L.n, L.i, L.n, L.g>>, <<K.RA, K.N, K.NI, K.N, K.GU>>>>,  \* running: ランニング
    <<<<L.t, L.a, L.k, L.e>>, <<K.TE, K.I, K.KU>>>>,  \* take: テイク
    <<<<L.t, L.a, L.k, L.i, L.n, L.g>>, <<K.TE, K.I, K.KI, K.N, K.GU>>>>,  \* taking: テイキング
    <<<<L.m, L.a, L.k, L.e>>, <<K.ME, K.I, K.KU>>>>,  \* make: メイク
    <<<<L.m, L.a, L.k, L.i, L.n, L.g>>, <<K.ME, K.I, K.KI, K.N, K.GU>>>>,  \* making: メイキング
    <<<<L.w, L.a, L.n, L.t>>, <<K.U, K.sO, K.N, K.TO>>>>,  \* want: ウォント
    <<<<L.w, L.a, L.n, L.t, L.i, L.n, L.g>>, <<K.U, K.sO, K.N, K.TE, K.sI, K.N, K.GU>>>>,  \* wanting: ウォンティング
    <<<<L.n, L.e, L.e, L.d>>, <<K.NI, K.CHO, K.DO>>>>,  \* need: ニード
    <<<<L.n, L.e, L.e, L.d, L.i, L.n, L.g>>, <<K.NI, K.CHO, K.DE, K.sI, K.N, K.GU>>>>,  \* needing: ニーディング
    <<<<L.s, L.i, L.n, L.g>>, <<K.SI, K.N, K.GU>>>>,  \* sing: シング
    <<<<L.s, L.i, L.n, L.g, L.i, L.n, L.g>>, <<K.SI, K.N, K.GI, K.N, K.GU>>>>,  \* singing: シンギング
    <<<<L.c, L.r, L.y>>, <<K.KU, K.RA, K.I>>>>,  \* cry: クライ
    <<<<L.c, L.r, L.y, L.i, L.n, L.g>>, <<K.KU, K.RA, K.I, K.N, K.GU>>>>,  \* crying: クライング
    <<<<L.l, L.a, L.u, L.g, L.h>>, <<K.RA, K.HU>>>>,  \* laugh: ラフ
    <<<<L.l, L.a, L.u, L.g, L.h, L.i, L.n, L.g>>, <<K.RA, K.HU, K.sI, K.N, K.GU>>>>,  \* laughing: ラフィング
    <<<<L.h, L.o, L.l, L.d>>, <<K.HO, K.CHO, K.RU, K.DO>>>>,  \* hold: ホールド
    <<<<L.h, L.o, L.l, L.d, L.i, L.n>>, <<K.HO, K.CHO, K.RU, K.DE, K.sI, K.N>>>>,  \* holdin: ホールディン
    <<<<L.h, L.o, L.l, L.d, L.i, L.n, P.apos>>, <<K.HO, K.CHO, K.RU, K.DE, K.sI, K.N>>>>,  \* holdin': ホールディン
    <<<<L.c, L.a, L.n, L.t>>, <<K.KI, K.sYA, K.N, K.TO>>>>,  \* cant: キャント
    <<<<L.l, L.o, L.v, L.e>>, <<K.RA, K.VU>>>>,  \* love: ラヴ
    <<<<L.h, L.e, L.a, L.r, L.t>>, <<K.HA, K.CHO, K.TO>>>>,  \* heart: ハート
    <<<<L.f, L.e, L.e, L.l>>, <<K.HU, K.sI, K.CHO, K.RU>>>>,  \* feel: フィール
    <<<<L.f, L.e, L.e, L.l, L.s>>, <<K.HU, K.sI, K.CHO, K.RU, K.ZU>>>>,  \* feels: フィールズ
    <<<<L.f, L.e, L.e, L.l, L.i, L.n, L.g, L.s>>, <<K.HU, K.sI, K.CHO, K.RI, K.N, K.GU, K.SU>>>>,  \* feelings: フィーリングス
    <<<<L.d, L.r, L.e, L.a, L.m>>, <<K.DO, K.RI, K.CHO, K.MU>>>>,  \* dream: ドリーム
    <<<<L.d, L.r, L.e, L.a, L.m, L.i, L.n, L.g>>, <<K.DO, K.RI, K.CHO, K.MI, K.N, K.GU>>>>,  \* dreaming: ドリーミング
    <<<<L.d, L.e, L.s, L.i, L.r, L.e>>, <<K.DE, K.ZA, K.I, K.A>>>>,  \* desire: デザイア
    <<<<L.f, L.i, L.r, L.e>>, <<K.HU, K.sA, K.I, K.A>>>>,  \* fire: ファイア
    <<<<L.h, L.i, L.g, L.h, L.e, L.r>>, <<K.HA, K.I, K.YA, K.CHO>>>>,  \* higher: ハイヤー
    <<<<L.f, L.e, L.v, L.e, L.r>>, <<K.HU, K.sI, K.CHO, K.VU, K.sA, K.CHO>>>>,  \* fever: フィーヴァー
    <<<<L.a, L.g, L.a, L.i, L.n>>, <<K.A, K.GE, K.I, K.N>>>>,  \* again: アゲイン
    <<<<L.m, L.o, L.r, L.e>>, <<K.MO, K.sO, K.A>>>>,  \* more: モォア
    <<<<L.a, L.n, L.y, L.m, L.o, L.r, L.e>>, <<K.E, K.NI, K.MO, K.sA>>>>,  \* anymore: エニモァ
    <<<<L.f, L.o, L.r, L.e, L.v, L.e, L.r>>, <<K.HU, K.sO, K.CHO, K.E, K.VU, K.sA, K.CHO>>>>,  \* forever: フォーエヴァー
    <<<<L.n, L.e, L.v, L.e, L.r>>, <<K.NE, K.VU, K.sA, K.CHO>>>>,  \* never: ネヴァー
    <<<<L.e, L.v, L.e, L.r>>, <<K.E, K.VU, K.sA, K.CHO>>>>,  \* ever: エヴァー
    <<<<L.t, L.o, L.d, L.a, L.y>>, <<K.TO, K.sU, K.DE, K.I>>>>,  \* today: トゥデイ
    <<<<L.y, L.e, L.s, L.t, L.e, L.r, L.d, L.a, L.y>>, <<K.I, K.E, K.SU, K.TA, K.DE, K.I>>>>,  \* yesterday: イエスタデイ
    <<<<L.t, L.o, L.m, L.o, L.r, L.r, L.o, L.w>>, <<K.TO, K.sU, K.MO, K.RO, K.CHO>>>>,  \* tomorrow: トゥモロー
    <<<<L.n, L.i, L.g, L.h, L.t>>, <<K.NA, K.I, K.TO>>>>,  \* night: ナイト
    <<<<L.t, L.o, L.n, L.i, L.g, L.h, L.t>>, <<K.TO, K.sU, K.NA, K.I, K.TO>>>>,  \* tonight: トゥナイト
    <<<<L.l, L.i, L.g, L.h, L.t>>, <<K.RA, K.I, K.TO>>>>,  \* light: ライト
    <<<<L.b, L.r, L.i, L.g, L.h, L.t>>, <<K.BU, K.RA, K.I, K.TO>>>>,  \* bright: ブライト
    <<<<L.r, L.i, L.g, L.h, L.t>>, <<K.RA, K.I, K.TO>>>>,  \* right: ライト
    <<<<L.w, L.r, L.o, L.n, L.g>>, <<K.RO, K.N, K.GU>>>>,  \* wrong: ロング
    <<<<L.s, L.t, L.r, L.o, L.n, L.g>>, <<K.SU, K.TO, K.RO, K.N, K.GU>>>>,  \* strong: ストロング
    <<<<L.s, L.t, L.o, L.r, L.m>>, <<K.SU, K.TO, K.CHO, K.MU>>>>,  \* storm: ストーム
    <<<<L.d, L.o, L.o, L.r>>, <<K.DO, K.A>>>>,  \* door: ドア
    <<<<L.b, L.e, L.f, L.o, L.r, L.e>>, <<K.BI, K.HU, K.sO, K.CHO>>>>,  \* before: ビフォー
    <<<<L.a, L.f, L.t, L.e, L.r>>, <<K.A, K.HU, K.TA, K.CHO>>>>,  \* after: アフター
    <<<<L.i, L.n, L.s, L.i, L.d, L.e>>, <<K.I, K.N, K.SA, K.I, K.DO>>>>,  \* inside: インサイド
    <<<<L.o, L.u, L.t, L.s, L.i, L.d, L.e>>, <<K.A, K.U, K.TU, K.sA, K.I, K.DO>>>>,  \* outside: アウツァイド
    <<<<L.w, L.o, L.r, L.l, L.d>>, <<K.WA, K.CHO, K.RU, K.DO>>>>,  \* world: ワールド
    <<<<L.s, L.k, L.y>>, <<K.SU, K.KA, K.I>>>>,  \* sky: スカイ
    <<<<L.s, L.h, L.i, L.n, L.e>>, <<K.SI, K.sYA, K.I, K.N>>>>,  \* shine: シャイン
    <<<<L.s, L.h, L.i, L.n, L.i, L.n, L.g>>, <<K.SI, K.sYA, K.I, K.NI, K.N, K.GU>>>>,  \* shining: シャイニング
    <<<<L.g, L.o, L.n, L.e>>, <<K.GO, K.CHO, K.N>>>>,  \* gone: ゴーン
    <<<<L.a, L.w, L.a, L.y>>, <<K.A, K.U, K.sE, K.I>>>>,  \* away: アウェイ
    <<<<L.w, L.i, L.t, L.h>>, <<K.U, K.sI, K.ZU>>>>,  \* with: ウィズ
    <<<<L.w, L.i, L.t, L.h, L.o, L.u, L.t>>, <<K.U, K.sI, K.ZA, K.U, K.TO>>>>,  \* without: ウィザウト
    <<<<L.b, L.e, L.c, L.a, L.u, L.s, L.e>>, <<K.BI, K.KO, K.CHO, K.ZU>>>>,  \* because: ビコーズ
    <<<<L.j, L.u, L.s, L.t>>, <<K.ZI, K.sYA, K.SU, K.TO>>>>,  \* just: ジャスト
    <<<<L.t, L.r, L.u, L.s, L.t>>, <<K.TO, K.RA, K.SU, K.TO>>>>,  \* trust: トラスト
    <<<<L.b, L.e, L.l, L.i, L.e, L.v, L.e>>, <<K.BI, K.RI, K.CHO, K.VU>>>>,  \* believe: ビリーヴ
    <<<<L.d, L.a, L.n, L.c, L.e>>, <<K.DA, K.N, K.SU>>>>,  \* dance: ダンス
    <<<<L.d, L.a, L.n, L.c, L.i, L.n, L.g>>, <<K.DA, K.N, K.SI, K.N, K.GU>>>>,  \* dancing: ダンシング
    <<<<L.c, L.a, L.l, L.l>>, <<K.KO, K.CHO, K.RU>>>>,  \* call: コール
    <<<<L.c, L.a, L.l, L.l, L.i, L.n, L.g>>, <<K.KO, K.CHO, K.RI, K.N, K.GU>>>>,  \* calling: コーリング
    <<<<L.l, L.o, L.r, L.d>>, <<K.RO, K.CHO, K.DO>>>>,  \* lord: ロード
    <<<<L.t, L.h, L.a, L.n, L.k, L.s>>, <<K.SA, K.N, K.KU, K.SU>>>>,  \* thanks: サンクス
    <<<<L.p, L.r, L.a, L.i, L.s, L.e>>, <<K.PU, K.RE, K.I, K.ZU>>>>,  \* praise: プレイズ
    <<<<L.g, L.i, L.v, L.e>>, <<K.GI, K.VU>>>>  \* give: ギヴ
  >>


(***************************************************************************)
(* 2. PHRASE REPLACEMENTS                                                  *)
(***************************************************************************)
\* End of a match of /レッ?\s*イッ?\s*ゴー/ starting at i, or 0.  No
\* character fits two adjacent parts of the pattern, so the greedy match
\* is the only one.
LetItGoEnd(t, i) ==
  IF ~(i <= Len(t) /\ t[i] = K.RE) THEN 0
  ELSE LET a == IF i + 1 <= Len(t) /\ t[i + 1] = K.sTU THEN i + 2 ELSE i + 1
           b == a + LeadSpaces(t, a)
       IN  IF ~(b <= Len(t) /\ t[b] = K.I) THEN 0
           ELSE LET c == IF b + 1 <= Len(t) /\ t[b + 1] = K.sTU THEN b + 2 ELSE b + 1
                    d == c + LeadSpaces(t, c)
                IN  IF d + 1 <= Len(t) /\ t[d] = K.GO /\ t[d + 1] = K.CHO
                    THEN d + 1 ELSE 0

RECURSIVE LetItGoFrom(_, _)
LetItGoFrom(t, i) ==
  IF i > Len(t) THEN <<>>
  ELSE LET e == LetItGoEnd(t, i)
       IN  IF e > 0 THEN <<K.RE, K.RI, K.GO, K.CHO>> \o LetItGoFrom(t, e + 1)
           ELSE <<t[i]>> \o LetItGoFrom(t, i + 1)

postProcessKana(text) == LetItGoFrom(text, 1)

(***************************************************************************)
(* 3. Vocal style C                                                        *)
(***************************************************************************)
\* .replace(/モォアー?/g, "モォアァ")
RECURSIVE MooaFrom(_, _)
MooaFrom(t, i) ==
  IF i > Len(t) THEN <<>>
  ELSE IF MatchAt(t, <<K.MO, K.sO, K.A>>, i)
       THEN LET n == IF i + 3 <= Len(t) /\ t[i + 3] = K.CHO THEN 4 ELSE 3
            IN  <<K.MO, K.sO, K.A, K.sA>> \o MooaFrom(t, i + n)
       ELSE <<t[i]>> \o MooaFrom(t, i + 1)

BareVowels == {K.A, K.I, K.U, K.E, K.O}

\* /([アイウエオ])ー?\s*$/ matches at i: a vowel kana, at most one long-vowel
\* mark, then white space only up to the end of the string.
LineFinalAt(t, i) ==
  /\ t[i] \in BareVowels
  /\ LET j == IF i + 1 <= Len(t) /\ t[i + 1] = K.CHO THEN i + 2 ELSE i + 1
     IN  \A k \in j..Len(t) : IsSpace(t[k])

\* Mutant: the rule takes any kana before the long-vowel mark, not only
\* the five vowels.
lineFinalLongToneAnyKana(t) ==
  IF t # <<>> /\ t[Len(t)] = K.CHO THEN t \o <<K.CHO>> ELSE t

\* Mutant: the replacement is "$1ー", one mark after the vowel.
lineFinalLongToneOneMark(t) ==
  IF \E i \in 1..Len(t) : LineFinalAt(t, i)
  THEN LET i == CHOOSE k \in 1..Len(t) :
                  LineFinalAt(t, k) /\ \A m \in 1..(k - 1) : ~LineFinalAt(t, m)
       IN  SubSeq(t, 1, i) \o <<K.CHO>>
  ELSE t

\* 行末ロングトーン強化: .replace(/([アイウエオ])ー?\s*$/g, "$1ーー")
lineFinalLongTone(t) ==
  IF \E i \in 1..Len(t) : LineFinalAt(t, i)
  THEN LET i == CHOOSE k \in 1..Len(t) :
                  LineFinalAt(t, k) /\ \A m \in 1..(k - 1) : ~LineFinalAt(t, m)
       IN  SubSeq(t, 1, i) \o <<K.CHO, K.CHO>>
  ELSE t

\* Lines 205-211: the fixed list of substring replacements, in order.
substituteClipped(lineKana) ==
  LET t1 == ReplaceAll(lineKana, <<K.MO, K.A>>, <<K.MO, K.sO, K.A, K.sA>>)
      t2 == MooaFrom(t1, 1)
      t3 == ReplaceAll(t2, <<K.HU, K.sA, K.I, K.A>>, <<K.HU, K.sA, K.I, K.A, K.sA>>)
      t4 == ReplaceAll(t3, <<K.DE, K.ZA, K.I, K.A>>, <<K.DE, K.ZA, K.I, K.A, K.sA>>)
      t5 == ReplaceAll(t4, <<K.TA, K.I, K.MU>>, <<K.TA, K.I, K.MU, K.sU>>)
      t6 == ReplaceAll(t5, <<K.NA, K.I, K.TO>>, <<K.NA, K.I, K.sTU>>)
  IN  ReplaceAll(t6, <<K.RA, K.I, K.TO>>, <<K.RA, K.I, K.sTU>>)

applyVocalStyleC(lineKana) == lineFinalLongTone(substituteClipped(lineKana))

(***************************************************************************)
(* 4. SIMPLE ROMAN -> KANA (fallback)                                      *)
(***************************************************************************)
patternMap ==
  <<
    <<<<L.t, L.i, L.o, L.n>>, <<H.SI, H.sYO, H.N>>>>,  \* tion: しょん
    <<<<L.s, L.i, L.o, L.n>>, <<H.ZI, H.sYO, H.N>>>>,  \* sion: じょん
    <<<<L.i, L.g, L.h, L.t>>, <<H.A, H.I, H.TO>>>>,  \* ight: あいと
    <<<<L.i, L.g, L.h>>, <<H.A, H.I>>>>,  \* igh: あい
    <<<<L.p, L.h>>, <<H.HU>>>>,  \* ph: ふ
    <<<<L.s, L.h>>, <<H.SI>>>>,  \* sh: し
    <<<<L.c, L.h>>, <<H.TI>>>>,  \* ch: ち
    <<<<L.t, L.h>>, <<H.SU>>>>,  \* th: す
    <<<<L.w, L.h>>, <<H.U>>>>,  \* wh: う
    <<<<L.c, L.k>>, <<H.KU>>>>,  \* ck: く
    <<<<L.n, L.g>>, <<H.N, H.GU>>>>,  \* ng: んぐ
    <<<<L.q, L.u>>, <<H.KU>>>>,  \* qu: く
    <<<<L.o, L.o>>, <<H.U, K.CHO>>>>,  \* oo: うー
    <<<<L.e, L.e>>, <<H.I, K.CHO>>>>,  \* ee: いー
    <<<<L.e, L.a>>, <<H.I, K.CHO>>>>,  \* ea: いー
    <<<<L.a, L.i>>, <<H.E, H.I>>>>,  \* ai: えい
    <<<<L.a, L.y>>, <<H.E, H.I>>>>,  \* ay: えい
    <<<<L.o, L.w>>, <<H.A, H.U>>>>,  \* ow: あう
    <<<<L.o, L.u>>, <<H.A, H.U>>>>,  \* ou: あう
    <<<<L.e, L.r>>, <<H.A, K.CHO>>>>,  \* er: あー
    <<<<L.o, L.r>>, <<H.O, K.CHO>>>>  \* or: おー
  >>


charMap ==
  <<
    <<L.a, <<H.A>>>>,  \* a: あ
    <<L.e, <<H.E>>>>,  \* e: え
    <<L.i, <<H.I>>>>,  \* i: い
    <<L.o, <<H.O>>>>,  \* o: お
    <<L.u, <<H.U>>>>,  \* u: う
    <<L.y, <<H.I>>>>,  \* y: い
    <<L.b, <<H.BU>>>>,  \* b: ぶ
    <<L.c, <<H.KU>>>>,  \* c: く
    <<L.d, <<H.DO>>>>,  \* d: ど
    <<L.f, <<H.HU>>>>,  \* f: ふ
    <<L.g, <<H.GU>>>>,  \* g: ぐ
    <<L.h, <<H.HA>>>>,  \* h: は
    <<L.j, <<H.ZI>>>>,  \* j: じ
    <<L.k, <<H.KU>>>>,  \* k: く
    <<L.l, <<H.RU>>>>,  \* l: る
    <<L.m, <<H.MU>>>>,  \* m: む
    <<L.n, <<H.N>>>>,  \* n: ん
    <<L.p, <<H.PU>>>>,  \* p: ぷ
    <<L.q, <<H.KU>>>>,  \* q: く
    <<L.r, <<H.RU>>>>,  \* r: る
    <<L.s, <<H.SU>>>>,  \* s: す
    <<L.t, <<H.TO>>>>,  \* t: と
    <<L.v, <<H.VU>>>>,  \* v: ゔ
    <<L.w, <<H.U>>>>,  \* w: う
    <<L.x, <<H.KU, H.SU>>>>,  \* x: くす
    <<L.z, <<H.ZU>>>>  \* z: ず
  >>

\* charMap of romanToKanaStandard (studio page)
charMapStandard ==
  <<
    <<L.a, <<K.A>>>>,  \* a: ア
    <<L.e, <<K.E>>>>,  \* e: エ
    <<L.i, <<K.I>>>>,  \* i: イ
    <<L.o, <<K.O>>>>,  \* o: オ
    <<L.u, <<K.U>>>>,  \* u: ウ
    <<L.y, <<K.I>>>>,  \* y: イ
    <<L.b, <<K.BU>>>>,  \* b: ブ
    <<L.c, <<K.KU>>>>,  \* c: ク
    <<L.d, <<K.DO>>>>,  \* d: ド
    <<L.f, <<K.HU>>>>,  \* f: フ
    <<L.g, <<K.GU>>>>,  \* g: グ
    <<L.h, <<K.HA>>>>,  \* h: ハ
    <<L.j, <<K.ZI>>>>,  \* j: ジ
    <<L.k, <<K.KU>>>>,  \* k: ク
    <<L.l, <<K.RU>>>>,  \* l: ル
    <<L.m, <<K.MU>>>>,  \* m: ム
    <<L.n, <<K.N>>>>,  \* n: ン
    <<L.p, <<K.PU>>>>,  \* p: プ
    <<L.q, <<K.KU>>>>,  \* q: ク
    <<L.r, <<K.RU>>>>,  \* r: ル
    <<L.s, <<K.SU>>>>,  \* s: ス
    <<L.t, <<K.TO>>>>,  \* t: ト
    <<L.v, <<K.VU>>>>,  \* v: ヴ
    <<L.w, <<K.U>>>>,  \* w: ウ
    <<L.x, <<K.KU, K.SU>>>>,  \* x: クス
    <<L.z, <<K.ZU>>>>  \* z: ズ
  >>

\* patternMap.forEach(([from, to]) => s = s.replace(new RegExp(from, "g"), to)),
\* rules k..last in the order of the list.
RECURSIVE ApplyPatternsTo(_, _, _)
ApplyPatternsTo(s, k, last) ==
  IF k > last THEN s
  ELSE ApplyPatternsTo(ReplaceAll(s, patternMap[k][1], patternMap[k][2]), k + 1, last)
ApplyPatterns(s) == ApplyPatternsTo(s, 1, Len(patternMap))

InCharMap(map, ch) == \E k \in 1..Len(map) : map[k][1] = ch
CharMapGet(map, ch) == map[CHOOSE k \in 1..Len(map) : map[k][1] = ch][2]

\* The character loop: a character of the map gives its kana, a digit
\* stays, every other character (kana put in by the patterns included:
\* the map has Latin keys only) gives nothing.
RECURSIVE MapChars(_, _, _)
MapChars(map, s, i) ==
  IF i > Len(s) THEN <<>>
  ELSE (IF InCharMap(map, s[i]) THEN CharMapGet(map, s[i])
        ELSE IF IsDigit(s[i]) THEN <<s[i]>>
        ELSE <<>>) \o MapChars(map, s, i + 1)

\* Mutant: ゔ, which lies outside ぁ-ん, is forgotten.
vuToKatakanaSkipped(str) == str

\* 「ゔ」→「ヴ」
vuToKatakana(str) == ReplaceClass(str, {H.VU}, <<K.VU>>)

romanToKana(word) ==
  IF word = <<>> THEN <<>>
  ELSE LET s == ApplyPatterns(toLowerCase(word))
           out == MapChars(charMap, s, 1)
       IN  vuToKatakana(toKatakana(out))

(***************************************************************************)
(* 5. KOREAN PLACEHOLDER                                                   *)
(***************************************************************************)
koreanToKanaLine(line) == line

(***************************************************************************)
(* 6. MAIN: ENGLISH LINE -> KANA LINE                                      *)
(***************************************************************************)
\* Length of the match of /^[^A-Za-z0-9]+/ (0: no match).
RECURSIVE LeadNonAlnum(_, _)
LeadNonAlnum(raw, i) ==
  IF i <= Len(raw) /\ ~IsAlnum(raw[i]) THEN 1 + LeadNonAlnum(raw, i + 1) ELSE 0
\* Length of the match of /[^A-Za-z0-9]+$/ (0: no match).
RECURSIVE TrailNonAlnum(_, _)
TrailNonAlnum(raw, i) ==
  IF i >= 1 /\ ~IsAlnum(raw[i]) THEN 1 + TrailNonAlnum(raw, i - 1) ELSE 0

leadingPuncMatch(raw) == SubSeq(raw, 1, LeadNonAlnum(raw, 1))
trailingPuncMatch(raw) ==
  SubSeq(raw, Len(raw) - TrailNonAlnum(raw, Len(raw)) + 1, Len(raw))

\* raw.replace(/^[^A-Za-z0-9]+/, "").replace(/[^A-Za-z0-9]+$/, "")
coreOf(raw) ==
  LET r1 == SubSeq(raw, 1 + LeadNonAlnum(raw, 1), Len(raw))
  IN  SubSeq(r1, 1, Len(r1) - TrailNonAlnum(r1, Len(r1)))

\* .replace(/[’']/g, "")
dropApostrophes(s) == ReplaceClass(s, {P.rsquo, P.apos}, <<>>)

leadingPunc(raw) == dropApostrophes(leadingPuncMatch(raw))
trailingPunc(raw) == dropApostrophes(trailingPuncMatch(raw))

HasOverride(lower) == \E k \in 1..Len(WORD_OVERRIDES) : WORD_OVERRIDES[k][1] = lower
OverrideOf(lower) ==
  WORD_OVERRIDES[CHOOSE k \in 1..Len(WORD_OVERRIDES) : WORD_OVERRIDES[k][1] = lower][2]

\* Mutant: the override table is not consulted.
kanaCoreOfFallbackOnly(core) == romanToKana(core)

\* Lines 346-353: the override table first, the fallback otherwise.
kanaCoreOf(core) ==
  LET lower == toLowerCase(core)
  IN  IF HasOverride(lower) THEN OverrideOf(lower) ELSE romanToKana(core)

\* Mutant: the trailing punctuation is put before the kana of the core.
kanaWordOfPunctFirst(raw) ==
  leadingPunc(raw) \o trailingPunc(raw) \o
  (IF coreOf(raw) = <<>> THEN <<>> ELSE kanaCoreOf(coreOf(raw)))

\* What one iteration of the word loop pushes for a non-empty raw token.
kanaWordOf(raw) ==
  IF coreOf(raw) = <<>> THEN leadingPunc(raw) \o trailingPunc(raw)
  ELSE leadingPunc(raw) \o kanaCoreOf(coreOf(raw)) \o trailingPunc(raw)

\* Lines 358-381: join, strip apostrophes and colons, phrase correction,
\* vocal style, katakana unification.
finishKanaLine(kanaWords) ==
  LET k1 == Join(kanaWords, <<W.SP>>)
      k2 == ReplaceClass(k1, {P.rsquo, P.lsquo, P.apos, P.fwbacktick, P.acute}, <<>>)
      k3 == ReplaceClass(k2, {P.colon, P.fwcolon}, <<W.SP>>)
      k4 == applyVocalStyleC(postProcessKana(k3))
      k5 == toKatakana(toKatakana(k4))
  IN  vuToKatakana(k5)

RECURSIVE KanaWordsFrom(_, _)
KanaWordsFrom(words, i) ==
  IF i > Len(words) THEN <<>>
  ELSE (IF words[i] = <<>> THEN <<>> ELSE <<kanaWordOf(words[i])>>)
       \o KanaWordsFrom(words, i + 1)

englishToKanaLine(line0) ==
  LET line == normalizeLyricLine(line0)
  IN  IF trim(line) = <<>> THEN <<>>
      ELSE finishKanaLine(KanaWordsFrom(SplitSpaces(line), 1))

(***************************************************************************)
(* 7. LYRICS                                                               *)
(***************************************************************************)
\* Mutant: Hangul is looked for before Latin letters.
kanaOfLineHangulFirst(line) ==
  IF hasHangul(line) THEN koreanToKanaLine(line)
  ELSE IF hasLatin(line) THEN englishToKanaLine(line)
  ELSE line

\* The dispatch of lines 400-408: Latin first, then Hangul, else verbatim.
kanaOfLine(line) ==
  IF hasLatin(line) THEN englishToKanaLine(line)
  ELSE IF hasHangul(line) THEN koreanToKanaLine(line)
  ELSE line

\* Mutant: the line number is advanced before the blank-line test.
RECURSIVE ConvertLinesCountingBlanks(_, _, _)
ConvertLinesCountingBlanks(rawLines, i, lineNo) ==
  IF i > Len(rawLines) THEN <<>>
  ELSE LET line == trimEnd(ReplaceClass(rawLines[i], {W.CR}, <<>>))
       IN  IF trim(line) = <<>> THEN ConvertLinesCountingBlanks(rawLines, i + 1, lineNo + 1)
           ELSE <<[lineNo |-> lineNo + 1, en |-> line, kana |-> line]>>
                \o ConvertLinesCountingBlanks(rawLines, i + 1, lineNo + 1)

\* The loop of lines 395-415, from raw line i on, lineNo lines pushed so far.
RECURSIVE ConvertLinesFrom(_, _, _)
ConvertLinesFrom(rawLines, i, lineNo) ==
  IF i > Len(rawLines) THEN <<>>
  ELSE LET line == trimEnd(ReplaceClass(rawLines[i], {W.CR}, <<>>))
       IN  IF trim(line) = <<>> THEN ConvertLinesFrom(rawLines, i + 1, lineNo)
           ELSE <<[lineNo |-> lineNo + 1,
                   en |-> line,
                   kana |-> kanaOfLine(line)]>>
                \o ConvertLinesFrom(rawLines, i + 1, lineNo + 1)

convertLyrics(text) ==
  LET norm == normalizeText(text)
  IN  IF norm = <<>> THEN <<>> ELSE ConvertLinesFrom(SplitLines(norm), 1, 0)

(***************************************************************************)
(* Standard conversion of the studio page (no overrides, no patterns).     *)
(***************************************************************************)
romanToKanaStandard(word) ==
  IF word = <<>> THEN <<>> ELSE MapChars(charMapStandard, toLowerCase(word), 1)

toKatakanaStandard(str) ==
  IF str = <<>> THEN <<>> ELSE vuToKatakana(toKatakana(str))

\* Mutant: the standard path looks the core up in the override table too.
standardWordOfWithOverrides(raw) ==
  IF coreOf(raw) = <<>> THEN leadingPuncMatch(raw) \o trailingPuncMatch(raw)
  ELSE leadingPuncMatch(raw) \o kanaCoreOf(coreOf(raw)) \o trailingPuncMatch(raw)

\* One iteration of the word loop of convertToStandardKana.
standardWordOf(raw) ==
  IF coreOf(raw) = <<>> THEN leadingPuncMatch(raw) \o trailingPuncMatch(raw)
  ELSE leadingPuncMatch(raw) \o romanToKanaStandard(coreOf(raw)) \o trailingPuncMatch(raw)

RECURSIVE StandardWordsFrom(_, _)
StandardWordsFrom(words, i) ==
  IF i > Len(words) THEN <<>>
  ELSE (IF words[i] = <<>> THEN <<>> ELSE <<standardWordOf(words[i])>>)
       \o StandardWordsFrom(words, i + 1)

\* Lines 760-762: the apostrophes go, a colon becomes a space.
standardNormalize(text) ==
  ReplaceClass(ReplaceClass(text, {P.rsquo, P.apos, P.backtick, P.acute}, <<>>),
               {P.colon, P.fwcolon}, <<W.SP>>)

convertToStandardKana(text) ==
  IF text = <<>> \/ trim(text) = <<>> THEN <<>>
  ELSE LET line == standardNormalize(text)
       IN  IF trim(line) = <<>> THEN <<>>
           ELSE toKatakanaStandard(Join(StandardWordsFrom(SplitSpaces(line), 1), <<W.SP>>))

(***************************************************************************)
(* highlightDifferences (studio page)                                      *)
(***************************************************************************)
\* <span class="bg-singkana-500/20 text-singkana-100 px-0.5 rounded">
SpanOpen ==
  <<
    60, 115, 112, 97, 110, 32, 99, 108, 97, 115, 115, 61, 34, 98, 103, 45, 115,
    105, 110, 103, 107, 97, 110, 97, 45, 53, 48, 48, 47, 50, 48, 32, 116, 101,
    120, 116, 45, 115, 105, 110, 103, 107, 97, 110, 97, 45, 49, 48, 48, 32,
    112, 120, 45, 48, 46, 53, 32, 114, 111, 117, 110, 100, 101, 100, 34, 62
  >>

\* </span>
SpanClose ==
  <<
    60, 47, 115, 112, 97, 110, 62
  >>

\* escapeHtml: div.textContent = text; return div.innerHTML.  The HTML
\* serialisation of a text node escapes &, <, > and the no-break space.
EscapeChar(c) ==
  IF c = P.amp THEN <<P.amp, L.a, L.m, L.p, 59>>
  ELSE IF c = P.lt THEN <<P.amp, L.l, L.t, 59>>
  ELSE IF c = P.gt THEN <<P.amp, L.g, L.t, 59>>
  ELSE IF c = W.NBSP THEN <<P.amp, L.n, L.b, L.s, L.p, 59>>
  ELSE <<c>>
RECURSIVE EscapeFrom(_, _)
EscapeFrom(t, i) ==
  IF i > Len(t) THEN <<>> ELSE EscapeChar(t[i]) \o EscapeFrom(t, i + 1)
escapeHtml(t) == EscapeFrom(t, 1)

\* a.filter(Boolean) on an array of strings
RECURSIVE FilterNonEmpty(_, _)
FilterNonEmpty(a, i) ==
  IF i > Len(a) THEN <<>>
  ELSE (IF a[i] = <<>> THEN <<>> ELSE <<a[i]>>) \o FilterNonEmpty(a, i + 1)

Contains(s, pat) == \E i \in 1..(Len(s) - Len(pat) + 1) : MatchAt(s, pat, i)

\* String(null), String(undefined)
StringOf(kind, s) ==
  IF kind = "null" THEN <<L.n, L.u, L.l, L.l>>
  ELSE IF kind = "undefined"
       THEN <<L.u, L.n, L.d, L.e, L.f, L.i, L.n, L.e, L.d>>
       ELSE s

\* Mutant: null is not taken for a falsy value.
isFalsyButNull(kind, s) == kind = "undefined" \/ (kind = "string" /\ s = <<>>)

\* !text: null, undefined and the empty string are falsy.
isFalsy(kind, s) == kind \in {"null", "undefined"} \/ s = <<>>

\* convertLyrics(text) for an argument that need not be a string:
\* normalizeText returns "" for a falsy argument (null, undefined, "")
\* before String(text) is taken, and convertLyrics returns [] for "".
convertLyricsArg(kind, s) ==
  IF isFalsy(kind, s) THEN <<>> ELSE convertLyrics(StringOf(kind, s))

(***************************************************************************)
(* State.                                                                  *)
(***************************************************************************)
VARIABLES
  \* romanToKana / romanToKanaStandard applied to one word
  word, nChunks, wordKana, wordStandard, wpc,
  \* englishToKanaLine / convertToStandardKana on one line, word by word
  line, path, lpc, words, wIdx, kanaWords, tok, kana,
  \* applyVocalStyleC on one kana line
  lineKana, substituted, styled, vpc,
  \* SingKanaCore.convertLyrics on a text
  text, textArg, out, tpc,
  \* highlightDifferences(standard, singkana)
  standard, singkana, standardWords, singkanaWords, sIdx, kIdx, result, html, hpc,
  \* the studio page: its convert handler and the state it leaves
  lyricsInput, engineLoaded, currentConvertedLines, activeIndex, errorBanner,
  resultPanel, nClicks, tracked,
  \* renderDisplay(coreText, mode)
  coreText, nPieces, mode, shown, dpc,
  \* the plan gate and the display-mode selector of the studio page
  serverPlan, planTier, planPc, dmValue, savedDisplayMode, hasConvertedLines,
  renderedWith, nRenders, picked, nModeSteps,
  \* captureAttributionOnce of analytics.js, one run per page load
  hasAttr, apc, attrSent, nAttrPosts,
  \* the module state of singkana_core.js over a series of convertLyrics calls
  overrides, calls

wordVars == <<word, nChunks, wordKana, wordStandard, wpc>>
lineVars == <<line, path, lpc, words, wIdx, kanaWords, tok, kana>>
vocalVars == <<lineKana, substituted, styled, vpc>>
lyricsVars == <<text, textArg, out, tpc>>
diffVars ==
  <<standard, singkana, standardWords, singkanaWords, sIdx, kIdx, result, html, hpc>>
pageVars ==
  <<lyricsInput, engineLoaded, currentConvertedLines, activeIndex, errorBanner,
    resultPanel, nClicks, tracked>>
displayVars == <<coreText, nPieces, mode, shown, dpc>>
modeVars ==
  <<serverPlan, planTier, planPc, dmValue, savedDisplayMode, hasConvertedLines,
    renderedWith, nRenders, picked, nModeSteps>>
attrVars == <<hasAttr, apc, attrSent, nAttrPosts>>
pureVars == <<overrides, calls>>
vars ==
  <<wordVars, lineVars, vocalVars, lyricsVars, diffVars, pageVars, displayVars,
    modeVars, attrVars, pureVars>>

NoTok == [raw |-> <<>>, lead |-> <<>>, core |-> <<>>, trail |-> <<>>, pushed |-> <<>>]

WordIdle ==
  /\ word = <<>> /\ nChunks = 0 /\ wordKana = <<>> /\ wordStandard = <<>>
  /\ wpc = "idle"
LineIdle ==
  /\ line = <<>> /\ path = "none" /\ lpc = "idle" /\ words = <<>> /\ wIdx = 0
  /\ kanaWords = <<>> /\ tok = NoTok /\ kana = <<>>
VocalIdle ==
  /\ lineKana = <<>> /\ substituted = <<>> /\ styled = <<>> /\ vpc = "idle"
LyricsIdle == text = <<>> /\ textArg = "none" /\ out = <<>> /\ tpc = "idle"
DiffIdle ==
  /\ standard = <<>> /\ singkana = <<>> /\ standardWords = <<>>
  /\ singkanaWords = <<>> /\ sIdx = 0 /\ kIdx = 0 /\ result = <<>>
  /\ html = <<>> /\ hpc = "idle"
PageIdle ==
  /\ lyricsInput = <<>> /\ engineLoaded = FALSE /\ currentConvertedLines = <<>>
  /\ activeIndex = -1 /\ errorBanner = "" /\ resultPanel = "idle" /\ nClicks = 0
  /\ tracked = <<>>
DisplayIdle ==
  /\ coreText = <<>> /\ nPieces = 0 /\ mode = "none" /\ shown = <<>>
  /\ dpc = "idle"
ModeIdle ==
  /\ serverPlan = "none" /\ planTier = "none" /\ planPc = "idle"
  /\ dmValue = "none" /\ savedDisplayMode = "" /\ hasConvertedLines = FALSE
  /\ renderedWith = "none" /\ nRenders = 0 /\ picked = <<>> /\ nModeSteps = 0
AttrIdle == hasAttr = <<>> /\ apc = <<>> /\ attrSent = FALSE /\ nAttrPosts = 0
PureIdle == overrides = <<>> /\ calls = <<>>

(***************************************************************************)
(* SpecWord: the two word transducers as functions of a word.  A word is   *)
(* put together from chunks: single letters and digits, and the letter     *)
(* groups the pattern list names.                                          *)
(***************************************************************************)
MaxChunks == 2

Digits == {48, 55}
Capitals == {UpperChar(L.p), UpperChar(L.s)}
Chunks ==
  {<<c>> : c \in 97..122} \cup {<<c>> : c \in Digits \cup Capitals}
  \cup {patternMap[k][1] : k \in 1..Len(patternMap)}

InitWord ==
  /\ word = <<>> /\ nChunks = 0 /\ wordKana = <<>> /\ wordStandard = <<>>
  /\ wpc = "typing"
  /\ LineIdle /\ VocalIdle /\ LyricsIdle /\ DiffIdle /\ PageIdle /\ DisplayIdle
  /\ ModeIdle /\ AttrIdle /\ PureIdle

TypeChunk ==
  /\ wpc = "typing"
  /\ nChunks < MaxChunks
  /\ \E ch \in Chunks : word' = word \o ch
  /\ nChunks' = nChunks + 1
  /\ UNCHANGED <<wordKana, wordStandard, wpc>>
  /\ UNCHANGED <<lineVars, vocalVars, lyricsVars, diffVars, pageVars, displayVars,
                 modeVars, attrVars, pureVars>>

CallRomanToKana ==
  /\ wpc = "typing"
  /\ word # <<>>
  /\ wordKana' = romanToKana(word)
  /\ wpc' = "converted"
  /\ UNCHANGED <<word, nChunks, wordStandard>>
  /\ UNCHANGED <<lineVars, vocalVars, lyricsVars, diffVars, pageVars, displayVars,
                 modeVars, attrVars, pureVars>>

CallRomanToKanaStandard ==
  /\ wpc = "converted"
  /\ wordStandard' = romanToKanaStandard(word)
  /\ wpc' = "compared"
  /\ UNCHANGED <<word, nChunks, wordKana>>
  /\ UNCHANGED <<lineVars, vocalVars, lyricsVars, diffVars, pageVars, displayVars,
                 modeVars, attrVars, pureVars>>

NextWord == TypeChunk \/ CallRomanToKana \/ CallRomanToKanaStandard

SpecWord == InitWord /\ [][NextWord]_vars

\* C3: for a word that is not in the override table, every rule of the
\* pattern list that matches when its turn comes leaves its kana in the
\* string romanToKana returns (ph: フ, sh: シ, tion: ション), whereas
\* romanToKanaStandard renders the word letter by letter (ph: プハ).
RECURSIVE LetterByLetter(_, _)
LetterByLetter(w, i) ==
  IF i > Len(w) THEN <<>>
  ELSE romanToKanaStandard(<<w[i]>>) \o LetterByLetter(w, i + 1)
C3_DigraphKanaInOutput ==
  /\ (wpc \in {"converted", "compared"} /\ ~HasOverride(toLowerCase(word)))
       => \A k \in 1..Len(patternMap) :
            Contains(ApplyPatternsTo(toLowerCase(word), 1, k - 1), patternMap[k][1])
              => Contains(wordKana, vuToKatakana(toKatakana(patternMap[k][2])))
  /\ wpc = "compared" => wordStandard = LetterByLetter(word, 1)

\* C4: for every word of ASCII letters and digits romanToKana returns a
\* string (possibly empty) of katakana characters and digits only.
IsKatakana(c) == c \in 12448..12543
C4_OnlyKatakanaOrDigits ==
  wpc \in {"converted", "compared"}
    => \A i \in 1..Len(wordKana) : IsKatakana(wordKana[i]) \/ IsDigit(wordKana[i])
C4_Witness ==
  /\ wpc = "converted"
  /\ word = <<L.v, 55>>
  /\ wordKana = <<K.VU, 55>>

(***************************************************************************)
(* SpecLine: englishToKanaLine (optimized path) and convertToStandardKana  *)
(* (standard path) on one line, one step per iteration of the word loop.   *)
(* The lines are put together from tokens whose leading punctuation, core  *)
(* and trailing punctuation are known, from every key of the override      *)
(* table in three letter cases, and from the spec's example lines.         *)
(***************************************************************************)
MaxTokens == 2

Tk(lead, core, trail) == [lead |-> lead, core |-> core, trail |-> trail]
TokenText(t) == t.lead \o t.core \o t.trail

wYou == <<UpperChar(L.y), L.o, L.u>>
wAnd == <<L.a, L.n, L.d>>
wMe == <<L.m, L.e>>
wLove == <<L.l, L.o, L.v, L.e>>
wMore == <<L.m, L.o, L.r, L.e>>

TokenRecs ==
  {
    Tk(<<>>, wYou, <<>>), Tk(<<>>, wAnd, <<>>), Tk(<<>>, wMe, <<>>),
    Tk(<<>>, wLove, <<P.bang>>), Tk(<<>>, wLove, <<P.colon>>),
    Tk(<<P.lparen>>, <<L.a>>, <<>>), Tk(<<>>, <<L.a>>, <<P.colon>>),
    Tk(<<>>, wMore, <<P.comma>>), Tk(<<>>, <<L.v, 55>>, <<>>),
    Tk(<<>>, <<L.a>>, <<P.apos, P.bang>>), Tk(<<H.A>>, <<L.i>>, <<>>),
    Tk(<<P.note>>, <<>>, <<>>), Tk(<<H.VU>>, <<>>, <<>>),
    Tk(<<X.hangulGa>>, <<>>, <<>>)
  }

TokenLines ==
  UNION {{Join([i \in 1..n |-> TokenText(ts[i])], <<W.SP>>) : ts \in [1..n -> TokenRecs]} :
         n \in 1..MaxTokens}

Capitalize(w) == [i \in 1..Len(w) |-> IF i = 1 THEN UpperChar(w[i]) ELSE w[i]]
OverrideLines ==
  UNION {{WORD_OVERRIDES[k][1], toUpperCase(WORD_OVERRIDES[k][1]),
          Capitalize(WORD_OVERRIDES[k][1])} : k \in 1..Len(WORD_OVERRIDES)}

YouAndMe == wYou \o <<W.SP>> \o wAnd \o <<W.SP>> \o wMe
LetItGo == <<L.l, L.e, L.t, W.SP, L.i, L.t, W.SP, L.g, L.o>>
RockNRoll ==
  <<L.r, L.o, L.c, L.k, W.SP, P.apos, L.n, P.apos, W.SP, L.r, L.o, L.l, L.l>>
\* white space at both ends and a run of it inside, curly quotes
SpacedLine == <<W.SP, P.lsquo, L.a, P.rsquo, W.TAB, W.SP, L.m, L.e, P.bang, W.SP>>
ScenarioLines == {YouAndMe, LetItGo, RockNRoll, SpacedLine}

Lines == TokenLines \cup OverrideLines \cup ScenarioLines

InitLine ==
  /\ line \in Lines
  /\ path \in {"optimized", "standard"}
  /\ lpc = "start"
  /\ words = <<>> /\ wIdx = 0 /\ kanaWords = <<>> /\ tok = NoTok /\ kana = <<>>
  /\ WordIdle /\ VocalIdle /\ LyricsIdle /\ DiffIdle /\ PageIdle /\ DisplayIdle
  /\ ModeIdle /\ AttrIdle /\ PureIdle

\* englishToKanaLine, lines 318-322
EnglishBegin ==
  /\ path = "optimized" /\ lpc = "start"
  /\ LET n == normalizeLyricLine(line)
     IN  IF trim(n) = <<>>
         THEN /\ kana' = <<>> /\ lpc' = "done"
              /\ UNCHANGED <<words, wIdx>>
         ELSE /\ words' = SplitSpaces(n) /\ wIdx' = 1 /\ lpc' = "loop"
              /\ UNCHANGED kana
  /\ UNCHANGED <<line, path, kanaWords, tok>>
  /\ UNCHANGED <<wordVars, vocalVars, lyricsVars, diffVars, pageVars, displayVars,
                 modeVars, attrVars, pureVars>>

\* englishToKanaLine, one iteration of the loop of lines 324-356
EnglishWord ==
  /\ path = "optimized" /\ lpc = "loop" /\ wIdx <= Len(words)
  /\ LET raw == words[wIdx]
     IN  IF raw = <<>>
         THEN UNCHANGED <<kanaWords, tok>>
         ELSE /\ tok' = [raw |-> raw, lead |-> leadingPunc(raw), core |-> coreOf(raw),
                         trail |-> trailingPunc(raw), pushed |-> kanaWordOf(raw)]
              /\ kanaWords' = Append(kanaWords, kanaWordOf(raw))
  /\ wIdx' = wIdx + 1
  /\ UNCHANGED <<line, path, lpc, words, kana>>
  /\ UNCHANGED <<wordVars, vocalVars, lyricsVars, diffVars, pageVars, displayVars,
                 modeVars, attrVars, pureVars>>

\* englishToKanaLine, lines 358-381
EnglishFinish ==
  /\ path = "optimized" /\ lpc = "loop" /\ wIdx > Len(words)
  /\ kana' = finishKanaLine(kanaWords)
  /\ lpc' = "done"
  /\ UNCHANGED <<line, path, words, wIdx, kanaWords, tok>>
  /\ UNCHANGED <<wordVars, vocalVars, lyricsVars, diffVars, pageVars, displayVars,
                 modeVars, attrVars, pureVars>>

\* convertToStandardKana, lines 757-767
StandardBegin ==
  /\ path = "standard" /\ lpc = "start"
  /\ IF line = <<>> \/ trim(line) = <<>> \/ trim(standardNormalize(line)) = <<>>
     THEN /\ kana' = <<>> /\ lpc' = "done"
          /\ UNCHANGED <<words, wIdx>>
     ELSE /\ words' = SplitSpaces(standardNormalize(line)) /\ wIdx' = 1 /\ lpc' = "loop"
          /\ UNCHANGED kana
  /\ UNCHANGED <<line, path, kanaWords, tok>>
  /\ UNCHANGED <<wordVars, vocalVars, lyricsVars, diffVars, pageVars, displayVars,
                 modeVars, attrVars, pureVars>>

\* convertToStandardKana, one iteration of the loop of lines 769-790
StandardWord ==
  /\ path = "standard" /\ lpc = "loop" /\ wIdx <= Len(words)
  /\ LET raw == words[wIdx]
     IN  IF raw = <<>>
         THEN UNCHANGED <<kanaWords, tok>>
         ELSE /\ tok' = [raw |-> raw, lead |-> leadingPuncMatch(raw), core |-> coreOf(raw),
                         trail |-> trailingPuncMatch(raw), pushed |-> standardWordOf(raw)]
              /\ kanaWords' = Append(kanaWords, standardWordOf(raw))
  /\ wIdx' = wIdx + 1
  /\ UNCHANGED <<line, path, lpc, words, kana>>
  /\ UNCHANGED <<wordVars, vocalVars, lyricsVars, diffVars, pageVars, displayVars,
                 modeVars, attrVars, pureVars>>

\* convertToStandardKana, lines 792-797
StandardFinish ==
  /\ path = "standard" /\ lpc = "loop" /\ wIdx > Len(words)
  /\ kana' = toKatakanaStandard(Join(kanaWords, <<W.SP>>))
  /\ lpc' = "done"
  /\ UNCHANGED <<line, path, words, wIdx, kanaWords, tok>>
  /\ UNCHANGED <<wordVars, vocalVars, lyricsVars, diffVars, pageVars, displayVars,
                 modeVars, attrVars, pureVars>>

NextLine ==
  \/ EnglishBegin \/ EnglishWord \/ EnglishFinish
  \/ StandardBegin \/ StandardWord \/ StandardFinish

SpecLine == InitLine /\ [][NextLine]_vars

\* The word-by-word run returns what the function returns.
LineRunAgrees ==
  lpc = "done" =>
    kana = IF path = "optimized" THEN englishToKanaLine(line)
           ELSE convertToStandardKana(line)

\* C2: a line that is one word whose lower-case form is a key of the
\* override table (the word in any letter case) converts to the table's
\* value, phrase-corrected and vocal-styled; the fallback is not used.
C2_OverridePrecedence ==
  (lpc = "done" /\ path = "optimized" /\ HasOverride(toLowerCase(line)))
    => kana = applyVocalStyleC(postProcessKana(OverrideOf(toLowerCase(line))))
C2_Witness ==
  /\ lpc = "done" /\ path = "optimized"
  /\ line = toUpperCase(wLove)
  /\ kana = <<K.RA, K.VU>>
  /\ romanToKana(line) # <<K.RA, K.VU>>

\* C5: the kana returned for a line with a Latin letter holds no hiragana
\* (none of ぁ-ん, no ゔ).
C5_NoHiragana ==
  (lpc = "done" /\ path = "optimized" /\ hasLatin(line))
    => \A i \in 1..Len(kana) : ~IsHiragana(kana[i]) /\ kana[i] # H.VU
C5_Witness ==
  /\ lpc = "done" /\ path = "optimized" /\ hasLatin(line)
  /\ Contains(line, <<H.A>>) /\ Contains(line, <<H.VU>>)
  /\ Contains(kana, <<K.A>>) /\ Contains(kana, <<K.VU>>)

\* Number of long-vowel marks at the end of s.
RECURSIVE TrailingMarks(_, _)
TrailingMarks(s, i) ==
  IF i >= 1 /\ s[i] = K.CHO THEN 1 + TrailingMarks(s, i - 1) ELSE 0

\* C6 (as claimed): "You and me" takes "you" and "me" from the override
\* table and the output has one more trailing long-vowel mark than the
\* word-by-word assembled line, added by the line-final rule.
C6_LineFinalMarkAdded ==
  (lpc = "done" /\ path = "optimized" /\ line = YouAndMe)
    => /\ kanaWords[1] = OverrideOf(toLowerCase(wYou))
       /\ kanaWords[3] = OverrideOf(wMe)
       /\ TrailingMarks(kana, Len(kana))
            = TrailingMarks(Join(kanaWords, <<W.SP>>), Len(Join(kanaWords, <<W.SP>>))) + 1
\* C6 (amended): "You and me" takes "you" and "me" from the override table;
\* the output is the assembled line ユー アンド ミー unchanged: it ends with
\* the long-vowel mark of the table's ミー, and the line-final rule adds none
\* (ミ is not one of the five bare vowel kana).
C6_OverridesAndNoAddedMark ==
  (lpc = "done" /\ path = "optimized" /\ line = YouAndMe)
    => /\ kanaWords[1] = OverrideOf(toLowerCase(wYou))
       /\ kanaWords[3] = OverrideOf(wMe)
       /\ kana = Join(kanaWords, <<W.SP>>)
       /\ kana[Len(kana)] = K.CHO
       /\ TrailingMarks(kana, Len(kana)) = 1
C6_Witness ==
  /\ lpc = "done" /\ path = "optimized" /\ line = YouAndMe
  /\ kana = <<K.YU, K.CHO, W.SP, K.A, K.N, K.DO, W.SP, K.MI, K.CHO>>

\* Tokens with a core whose punctuation is ASCII and holds no apostrophe.
IsPlainPunct(s) ==
  \A i \in 1..Len(s) :
    s[i] \in 33..126 /\ ~IsAlnum(s[i]) /\ s[i] \notin {P.apos, P.backtick}
CoredTokens ==
  {t \in TokenRecs : t.core # <<>> /\ IsPlainPunct(t.lead) /\ IsPlainPunct(t.trail)}
IsPrefix(p, s) == Len(p) <= Len(s) /\ SubSeq(s, 1, Len(p)) = p
IsSuffix(p, s) == Len(p) <= Len(s) /\ SubSeq(s, Len(s) - Len(p) + 1, Len(s)) = p
wLoveBang == wLove \o <<P.bang>>

ColonsToSpaces(s) == ReplaceClass(s, {P.colon, P.fwcolon}, <<W.SP>>)
Emitted(t) == t.lead \o kanaCoreOf(t.core) \o t.trail
ExpectedKana(ts) ==
  applyVocalStyleC(postProcessKana(ColonsToSpaces(
    Join([i \in 1..Len(ts) |-> Emitted(ts[i])], <<W.SP>>))))
C9_SplitReassembles ==
  tok.raw # <<>>
    => /\ tok.lead \o tok.core \o tok.trail = tok.raw
       /\ tok.core = <<>> => tok.pushed = tok.raw

(***************************************************************************)
(* SpecVocal: applyVocalStyleC on a kana line, in its two stages: the      *)
(* substring replacements (lines 205-211), then the line-final rule        *)
(* (line 214).                                                             *)
(***************************************************************************)
MaxKanaLen == 4

VocalAlphabet == {K.A, K.O, K.sO, K.MO, K.CHO, W.SP}

InitVocal ==
  /\ lineKana = <<>> /\ substituted = <<>> /\ styled = <<>> /\ vpc = "typing"
  /\ WordIdle /\ LineIdle /\ LyricsIdle /\ DiffIdle /\ PageIdle /\ DisplayIdle
  /\ ModeIdle /\ AttrIdle /\ PureIdle

TypeKana ==
  /\ vpc = "typing"
  /\ Len(lineKana) < MaxKanaLen
  /\ \E c \in VocalAlphabet : lineKana' = Append(lineKana, c)
  /\ UNCHANGED <<substituted, styled, vpc>>
  /\ UNCHANGED <<wordVars, lineVars, lyricsVars, diffVars, pageVars, displayVars,
                 modeVars, attrVars, pureVars>>

\* applyVocalStyleC, lines 203-211
SubstituteClipped ==
  /\ vpc = "typing"
  /\ substituted' = substituteClipped(lineKana)
  /\ vpc' = "substituted"
  /\ UNCHANGED <<lineKana, styled>>
  /\ UNCHANGED <<wordVars, lineVars, lyricsVars, diffVars, pageVars, displayVars,
                 modeVars, attrVars, pureVars>>

\* applyVocalStyleC, lines 213-216
LineFinal ==
  /\ vpc = "substituted"
  /\ styled' = lineFinalLongTone(substituted)
  /\ vpc' = "styled"
  /\ UNCHANGED <<lineKana, substituted>>
  /\ UNCHANGED <<wordVars, lineVars, lyricsVars, diffVars, pageVars, displayVars,
                 modeVars, attrVars, pureVars>>

NextVocal == TypeKana \/ SubstituteClipped \/ LineFinal

SpecVocal == InitVocal /\ [][NextVocal]_vars

\* The two stages give what the function gives.
VocalRunAgrees == vpc = "styled" => styled = applyVocalStyleC(lineKana)

\* The line's kana, trailing white space aside, ends in a bare vowel kana
\* (EndsBare) or in a bare vowel kana and one long-vowel mark (EndsMarked).
EndsBare(s) == s # <<>> /\ s[Len(s)] \in BareVowels
EndsMarked(s) == Len(s) >= 2 /\ s[Len(s)] = K.CHO /\ s[Len(s) - 1] \in BareVowels

\* C7 (as claimed): when the line ends in a bare vowel kana, with or
\* without a long-vowel mark after it, the line-final rule leaves exactly
\* one more long-vowel mark at the end than there was; other lines are
\* unchanged.
C7_ExactlyOneMarkAdded ==
  vpc = "styled"
    => LET s == trimEnd(substituted)
       IN  IF EndsBare(s) \/ EndsMarked(s)
           THEN TrailingMarks(styled, Len(styled)) = TrailingMarks(s, Len(s)) + 1
           ELSE styled = substituted
\* C7 (amended): when the line ends in a bare vowel kana, with or without
\* one long-vowel mark after it (and optional trailing white space), the
\* line-final rule leaves the vowel followed by exactly two long-vowel
\* marks and nothing else: two marks are added to a bare vowel, one to a
\* vowel that has one already; other lines are unchanged.
C7_TwoMarksAfterVowel ==
  vpc = "styled"
    => LET s == trimEnd(substituted)
       IN  IF EndsBare(s) THEN styled = s \o <<K.CHO, K.CHO>>
           ELSE IF EndsMarked(s) THEN styled = s \o <<K.CHO>>
           ELSE styled = substituted
C7_Witness ==
  /\ vpc = "styled"
  /\ substituted = <<K.MO, K.O, W.SP>>
  /\ styled = <<K.MO, K.O, K.CHO, K.CHO>>

(***************************************************************************)
(* SpecLyrics: SingKanaCore.convertLyrics on a text typed into the input.  *)
(***************************************************************************)
MaxTextLen == 4

TextAlphabet ==
  {L.a, K.A, X.hangulGa, W.SP, W.LF, W.CR, W.TAB, W.IDSP, W.NBSP}

\* The argument is a string, or one of the two values that are no string.
InitLyrics ==
  /\ text = <<>> /\ textArg \in {"string", "null", "undefined"}
  /\ out = <<>> /\ tpc = "typing"
  /\ WordIdle /\ LineIdle /\ VocalIdle /\ DiffIdle /\ PageIdle /\ DisplayIdle
  /\ ModeIdle /\ AttrIdle /\ PureIdle

TypeText ==
  /\ tpc = "typing" /\ textArg = "string"
  /\ Len(text) < MaxTextLen
  /\ \E c \in TextAlphabet : text' = Append(text, c)
  /\ UNCHANGED <<textArg, out, tpc>>
  /\ UNCHANGED <<wordVars, lineVars, vocalVars, diffVars, pageVars, displayVars,
                 modeVars, attrVars, pureVars>>

\* SingKanaCore.convertLyrics(text)
Convert ==
  /\ tpc = "typing"
  /\ out' = convertLyricsArg(textArg, text)
  /\ tpc' = "converted"
  /\ UNCHANGED <<text, textArg>>
  /\ UNCHANGED <<wordVars, lineVars, vocalVars, diffVars, pageVars, displayVars,
                 modeVars, attrVars, pureVars>>

NextLyrics == TypeText \/ Convert

SpecLyrics == InitLyrics /\ [][NextLyrics]_vars

\* The lines of s (split at line feeds) that hold a character which is not
\* white space, in order.
IsBlankLine(l) == \A i \in 1..Len(l) : IsSpace(l[i])
NonBlankLines(s) == SelectSeq(SplitLines(s), LAMBDA l : ~IsBlankLine(l))

\* C1: convertLyrics returns one entry per non-blank line of the normalized
\* text, in order, and the i-th entry has lineNo = i: a blank line gives no
\* entry and takes no line number.
C1_OneEntryPerNonBlankLine ==
  tpc = "converted"
    => LET nb == NonBlankLines(normalizeText(text))
       IN  /\ Len(out) = Len(nb)
           /\ \A i \in 1..Len(out) :
                out[i].lineNo = i /\ out[i].en = trimEnd(nb[i])
C1_Witness ==
  /\ tpc = "converted"
  /\ text = <<L.a, W.LF, W.LF, K.A>>
  /\ Len(out) = 2
  /\ out[2] = [lineNo |-> 2, en |-> <<K.A>>, kana |-> <<K.A>>]

(***************************************************************************)
(* SpecDiff: highlightDifferences(standard, singkana), one step per        *)
(* iteration of its while loop.  sIdx and kIdx count the words passed, as  *)
(* in the code (0-based cursors).                                          *)
(***************************************************************************)
MaxDiffWords == 2

DiffTokens == {<<K.A>>, <<K.I, K.CHO>>, <<P.lt>>}
DiffInputs ==
  UNION {{Join(ws, <<W.SP>>) : ws \in [1..n -> DiffTokens]} : n \in 0..MaxDiffWords}
  \cup {<<W.SP>>}

Marked(w) == SpanOpen \o escapeHtml(w) \o SpanClose

InitDiff ==
  /\ standard \in DiffInputs /\ singkana \in DiffInputs
  /\ standardWords = <<>> /\ singkanaWords = <<>> /\ sIdx = 0 /\ kIdx = 0
  /\ result = <<>> /\ html = <<>> /\ hpc = "start"
  /\ WordIdle /\ LineIdle /\ VocalIdle /\ LyricsIdle /\ PageIdle /\ DisplayIdle
  /\ ModeIdle /\ AttrIdle /\ PureIdle

\* Mutant: the early return is taken only when the optimized string is
\* empty; an empty standard string is aligned like any other.
HighlightBeginAlignsEmptyStandard ==
  /\ hpc = "start"
  /\ IF singkana = <<>>
     THEN /\ html' = escapeHtml(singkana) /\ hpc' = "done"
          /\ UNCHANGED <<standardWords, singkanaWords>>
     ELSE /\ standardWords' = FilterNonEmpty(SplitSpaces(standard), 1)
          /\ singkanaWords' = FilterNonEmpty(SplitSpaces(singkana), 1)
          /\ hpc' = "loop"
          /\ UNCHANGED html
  /\ UNCHANGED <<standard, singkana, sIdx, kIdx, result>>
  /\ UNCHANGED <<wordVars, lineVars, vocalVars, lyricsVars, pageVars, displayVars,
                 modeVars, attrVars, pureVars>>

\* Lines 845-856
HighlightBegin ==
  /\ hpc = "start"
  /\ IF standard = <<>> \/ singkana = <<>>
     THEN /\ html' = escapeHtml(singkana) /\ hpc' = "done"
          /\ UNCHANGED <<standardWords, singkanaWords>>
     ELSE /\ standardWords' = FilterNonEmpty(SplitSpaces(standard), 1)
          /\ singkanaWords' = FilterNonEmpty(SplitSpaces(singkana), 1)
          /\ hpc' = "loop"
          /\ UNCHANGED html
  /\ UNCHANGED <<standard, singkana, sIdx, kIdx, result>>
  /\ UNCHANGED <<wordVars, lineVars, vocalVars, lyricsVars, pageVars, displayVars,
                 modeVars, attrVars, pureVars>>

\* Mutant: after a mismatch the standard cursor stays where it is.
HighlightStepStandardStays ==
  /\ hpc = "loop"
  /\ sIdx < Len(standardWords) \/ kIdx < Len(singkanaWords)
  /\ LET same == /\ sIdx < Len(standardWords) /\ kIdx < Len(singkanaWords)
                 /\ standardWords[sIdx + 1] = singkanaWords[kIdx + 1]
         s1 == IF same THEN sIdx + 1 ELSE sIdx
         k1 == IF kIdx < Len(singkanaWords) THEN kIdx + 1 ELSE kIdx
         r1 == IF same THEN Append(result, escapeHtml(singkanaWords[kIdx + 1]))
               ELSE IF kIdx < Len(singkanaWords)
                    THEN Append(result, Marked(singkanaWords[kIdx + 1]))
                    ELSE result
     IN  /\ sIdx' = s1 /\ kIdx' = k1
         /\ result' = IF k1 < Len(singkanaWords) \/ s1 < Len(standardWords)
                      THEN Append(r1, <<W.SP>>) ELSE r1
  /\ UNCHANGED <<standard, singkana, standardWords, singkanaWords, html, hpc>>
  /\ UNCHANGED <<wordVars, lineVars, vocalVars, lyricsVars, pageVars, displayVars,
                 modeVars, attrVars, pureVars>>

\* Mutant: the skip of the standard word is nested in the branch that pushes
\* an optimized word, so nothing advances once the optimized words are used
\* up.
HighlightStepSkipsOnlyWithOptimized ==
  /\ hpc = "loop"
  /\ sIdx < Len(standardWords) \/ kIdx < Len(singkanaWords)
  /\ LET same == /\ sIdx < Len(standardWords) /\ kIdx < Len(singkanaWords)
                 /\ standardWords[sIdx + 1] = singkanaWords[kIdx + 1]
         k1 == IF same \/ kIdx < Len(singkanaWords) THEN kIdx + 1 ELSE kIdx
         s1 == IF same \/ (kIdx < Len(singkanaWords) /\ sIdx < Len(standardWords))
               THEN sIdx + 1 ELSE sIdx
         r1 == IF same THEN Append(result, escapeHtml(singkanaWords[kIdx + 1]))
               ELSE IF kIdx < Len(singkanaWords)
                    THEN Append(result, Marked(singkanaWords[kIdx + 1]))
                    ELSE result
     IN  /\ sIdx' = s1 /\ kIdx' = k1
         /\ result' = IF k1 < Len(singkanaWords) \/ s1 < Len(standardWords)
                      THEN Append(r1, <<W.SP>>) ELSE r1
  /\ UNCHANGED <<standard, singkana, standardWords, singkanaWords, html, hpc>>
  /\ UNCHANGED <<wordVars, lineVars, vocalVars, lyricsVars, pageVars, displayVars,
                 modeVars, attrVars, pureVars>>

\* One iteration of the loop of lines 858-882
HighlightStep ==
  /\ hpc = "loop"
  /\ sIdx < Len(standardWords) \/ kIdx < Len(singkanaWords)
  /\ LET same == /\ sIdx < Len(standardWords) /\ kIdx < Len(singkanaWords)
                 /\ standardWords[sIdx + 1] = singkanaWords[kIdx + 1]
         s1 == IF same \/ sIdx < Len(standardWords) THEN sIdx + 1 ELSE sIdx
         k1 == IF same \/ kIdx < Len(singkanaWords) THEN kIdx + 1 ELSE kIdx
         r1 == IF same THEN Append(result, escapeHtml(singkanaWords[kIdx + 1]))
               ELSE IF kIdx < Len(singkanaWords)
                    THEN Append(result, Marked(singkanaWords[kIdx + 1]))
                    ELSE result
     IN  /\ sIdx' = s1 /\ kIdx' = k1
         /\ result' = IF k1 < Len(singkanaWords) \/ s1 < Len(standardWords)
                      THEN Append(r1, <<W.SP>>) ELSE r1
  /\ UNCHANGED <<standard, singkana, standardWords, singkanaWords, html, hpc>>
  /\ UNCHANGED <<wordVars, lineVars, vocalVars, lyricsVars, pageVars, displayVars,
                 modeVars, attrVars, pureVars>>

\* Line 884, once the loop condition is false
HighlightEnd ==
  /\ hpc = "loop"
  /\ ~(sIdx < Len(standardWords) \/ kIdx < Len(singkanaWords))
  /\ html' = Join(result, <<>>)
  /\ hpc' = "done"
  /\ UNCHANGED <<standard, singkana, standardWords, singkanaWords, sIdx, kIdx, result>>
  /\ UNCHANGED <<wordVars, lineVars, vocalVars, lyricsVars, pageVars, displayVars,
                 modeVars, attrVars, pureVars>>

NextDiff == HighlightBegin \/ HighlightStep \/ HighlightEnd

SpecDiff == InitDiff /\ [][NextDiff]_vars

\* The words pushed so far, the separators left out.
EmittedWords == SelectSeq(result, LAMBDA r : r # <<W.SP>>)

\* C10: for two non-empty strings the optimized words are emitted in their
\* order; word i is emitted unmarked exactly when standard word i exists
\* and is identical, and wrapped in the changed marker otherwise; the two
\* cursors are equal whenever both are in range (no resynchronisation),
\* and at the end every optimized word has been emitted.
C10_PositionalComparison ==
  (hpc \in {"loop", "done"} /\ standard # <<>> /\ singkana # <<>>)
    => /\ Len(EmittedWords) = kIdx
       /\ \A i \in 1..kIdx :
            EmittedWords[i] =
              IF i <= Len(standardWords) /\ standardWords[i] = singkanaWords[i]
              THEN escapeHtml(singkanaWords[i]) ELSE Marked(singkanaWords[i])
       /\ (sIdx < Len(standardWords) /\ kIdx < Len(singkanaWords)) => sIdx = kIdx
       /\ hpc = "done" => kIdx = Len(singkanaWords)
C10_Witness ==
  /\ hpc = "done"
  /\ standardWords = <<<<K.A>>, <<K.I, K.CHO>>>>
  /\ singkanaWords = <<<<K.I, K.CHO>>, <<K.I, K.CHO>>>>
  /\ result = <<Marked(<<K.I, K.CHO>>), <<W.SP>>, <<K.I, K.CHO>>>>
  /\ sIdx = 2 /\ kIdx = 2


\* C11: the phrase correction collapses the kana of the three words "let",
\* "it", "go" into the single rendering レリゴー: the line returned for
\* "let it go" contains レリゴー and none of the three word renderings.
LetItGoKana == <<K.RE, K.RI, K.GO, K.CHO>>
C11_LetItGoCollapsed ==
  (path = "optimized" /\ lpc = "done" /\ line = LetItGo)
    => /\ Contains(kana, LetItGoKana)
       /\ ~Contains(kana, OverrideOf(<<L.l, L.e, L.t>>))
       /\ ~Contains(kana, OverrideOf(<<L.i, L.t>>))

(***************************************************************************)
(* SpecPage: the studio page.  The user edits the lyrics box and presses   *)
(* the convert button; convertLyrics() of the page reads the box, calls    *)
(* window.SingKanaCore.convertLyrics inside try/catch and leaves its       *)
(* outcome in window.currentConvertedLines, window.activeIndex, the error  *)
(* banner and the result panel.  window.SingKanaCore is a global another   *)
(* script supplies: it may be absent, and its call may throw.              *)
(***************************************************************************)
MaxClicks == 2

PageInputs ==
  { <<>>, <<W.SP>>, <<L.a>>, wYou \o <<W.LF>> \o wMe, <<P.apos>>,
    <<L.a, W.LF, P.colon>>, <<K.A>>, <<P.bang>> }

InitPage ==
  /\ lyricsInput = <<>> /\ engineLoaded \in BOOLEAN
  /\ currentConvertedLines = <<>> /\ activeIndex = -1
  /\ errorBanner = "" /\ resultPanel = "placeholder" /\ nClicks = 0
  /\ tracked = <<>>
  /\ WordIdle /\ LineIdle /\ VocalIdle /\ LyricsIdle /\ DiffIdle /\ DisplayIdle
  /\ ModeIdle /\ AttrIdle /\ PureIdle

\* the user types into #lyrics-input
EditLyrics ==
  /\ nClicks < MaxClicks
  /\ \E v \in PageInputs : v # lyricsInput /\ lyricsInput' = v
  /\ UNCHANGED <<engineLoaded, currentConvertedLines, activeIndex, errorBanner,
                 resultPanel, nClicks, tracked>>
  /\ UNCHANGED <<wordVars, lineVars, vocalVars, lyricsVars, diffVars, displayVars,
                 modeVars, attrVars, pureVars>>

\* lines.map(line => ({ en, standard, singkana, lineNo }))
linesWithComparison(lines) ==
  [i \in 1..Len(lines) |->
     [en |-> lines[i].en, standard |-> convertToStandardKana(lines[i].en),
      singkana |-> lines[i].kana, lineNo |-> lines[i].lineNo]]

\* convertLyrics() of the page, from the click to its return, called through
\* the wrapper that analytics.js puts around it
ClickConvert ==
  /\ nClicks < MaxClicks
  /\ nClicks' = nClicks + 1
  /\ \E thrown \in BOOLEAN :
       IF trim(lyricsInput) = <<>>
       THEN /\ errorBanner' = "" /\ resultPanel' = "enterLyrics"
            /\ UNCHANGED <<currentConvertedLines, activeIndex>>
       ELSE IF ~engineLoaded
       THEN /\ errorBanner' = "engineMissing" /\ resultPanel' = "engineMissing"
            /\ UNCHANGED <<currentConvertedLines, activeIndex>>
       ELSE IF thrown
       THEN /\ errorBanner' = "convertError" /\ resultPanel' = "convertError"
            /\ UNCHANGED <<currentConvertedLines, activeIndex>>
       ELSE LET lines == convertLyrics(lyricsInput)
            IN  /\ errorBanner' = ""
                /\ IF lines = <<>>
                   THEN /\ currentConvertedLines' = <<>> /\ activeIndex' = -1
                        /\ resultPanel' = "noValidLines"
                   ELSE /\ currentConvertedLines' = linesWithComparison(lines)
                        /\ activeIndex' = 0
                        /\ resultPanel' = "results"
  \* analytics.js wraps the handler: convert_click before the call, and
  \* after it convert_success when window.currentConvertedLines is not empty
  /\ tracked' = tracked \o <<"convert_click">>
                  \o (IF Len(currentConvertedLines') > 0
                      THEN <<"convert_success">> ELSE <<>>)
  /\ UNCHANGED <<lyricsInput, engineLoaded>>
  /\ UNCHANGED <<wordVars, lineVars, vocalVars, lyricsVars, diffVars, displayVars,
                 modeVars, attrVars, pureVars>>

NextPage == EditLyrics \/ ClickConvert

SpecPage == InitPage /\ [][NextPage]_vars

\* C12: when the core conversion throws, the page's convertLyrics catches
\* the exception and the outcome is zero converted lines: after the call
\* window.currentConvertedLines is empty, whatever it held before.
C12_ThrowLeavesNoLines ==
  resultPanel = "convertError" => currentConvertedLines = <<>>

\* C13: convertLyrics on an empty text, on a text of white space only, on
\* null and on undefined returns the empty list (and returns: it never
\* throws).
C13_BlankTextGivesNoLines ==
  (tpc = "converted" /\ (textArg # "string" \/ IsBlankLine(text)))
    => out = <<>>
C13_Witness ==
  /\ tpc = "converted" /\ textArg = "string" /\ out = <<>>
  /\ text = <<W.IDSP, W.LF, W.TAB, W.NBSP>>

\* C14: normalizeText is idempotent: normalizing a normalized text changes
\* nothing.
C14_NormalizeIdempotent ==
  textArg = "string"
    => normalizeText(normalizeText(text)) = normalizeText(text)
C14_Witness ==
  /\ tpc = "converted" /\ textArg = "string"
  /\ text = <<L.a, W.TAB, W.IDSP, L.a>>
  /\ normalizeText(text) = <<L.a, W.SP, L.a>>
  /\ out[1].en = <<L.a, W.SP, L.a>>

\* C15: a line with an ASCII letter is converted by englishToKanaLine, also
\* when it holds Hangul as well; a line without one gets its own text as
\* its kana, with Hangul (the stub) or with neither script (verbatim).
C15_LatinFirstElseVerbatim ==
  (tpc = "converted" /\ textArg = "string")
    => \A i \in 1..Len(out) :
         out[i].kana = IF \E j \in 1..Len(out[i].en) : IsLatin(out[i].en[j])
                       THEN englishToKanaLine(out[i].en)
                       ELSE out[i].en
C15_Witness ==
  /\ tpc = "converted"
  /\ text = <<L.a, X.hangulGa, W.LF, X.hangulGa>>
  /\ out = << [lineNo |-> 1, en |-> <<L.a, X.hangulGa>>, kana |-> <<K.A, X.hangulGa>>],
              [lineNo |-> 2, en |-> <<X.hangulGa>>, kana |-> <<X.hangulGa>>] >>

\* C16: when the standard string or the optimized string is empty,
\* highlightDifferences aligns nothing and returns the escaped optimized
\* text, with no changed marker in it.
C16_EmptySideReturnsEscaped ==
  (hpc = "done" /\ (standard = <<>> \/ singkana = <<>>))
    => /\ html = escapeHtml(singkana)
       /\ ~Contains(html, SpanOpen)
       /\ result = <<>> /\ sIdx = 0 /\ kIdx = 0
C16_Witness ==
  /\ hpc = "done" /\ standard = <<>>
  /\ singkana = <<P.lt, W.SP, K.A>>
  /\ html = <<P.amp, L.l, L.t, P.semi, W.SP, K.A>>

\* C17: for the word "you" the standard rendering (イオウ, letter by letter)
\* differs from the optimized rendering (ユー, from the override table).
C17_YouDiffers ==
  (lpc = "done" /\ line = wYou)
    => /\ path = "standard"
            => kana = <<K.I, K.O, K.U>> /\ kana # englishToKanaLine(line)
       /\ path = "optimized"
            => kana = <<K.YU, K.CHO>> /\ kana # convertToStandardKana(line)
C17_Witness ==
  /\ lpc = "done" /\ line = wYou /\ path = "standard"
  /\ kana = <<K.I, K.O, K.U>>
  /\ englishToKanaLine(line) = <<K.YU, K.CHO>>

\* C18: every line of a conversion result carries a standard rendering that
\* is not empty after trimming.
C18_StandardNeverBlank ==
  \A i \in 1..Len(currentConvertedLines) :
    trim(currentConvertedLines[i].standard) # <<>>

(***************************************************************************)
(* Display layer of the studio page: _renderDisplayPlainText and           *)
(* renderDisplay.  Each .replace(/.../g, ...) is a left-to-right scan for  *)
(* leftmost, non-overlapping matches; the replacement is not rescanned.    *)
(***************************************************************************)
\* "." of a regular expression matches every character but these
IsLineTerminator(c) == c \in {W.LF, W.CR, 8232, 8233}

\* [ぁ-んァ-ヶ一-龠々〆ヵヶ]
IsJapanese(c) ==
  \/ c \in 12353..12435 \/ c \in 12449..12534 \/ c \in 19968..40864
  \/ c \in {12293, 12294}

\* [、。！？]
IsJapanesePunct(c) == c \in {P.touten, P.kuten, P.fwbang, P.fwquest}

\* [ぁ-んァ-ヶA-Za-z]
IsKanaOrLatin(c) == c \in 12353..12435 \/ c \in 12449..12534 \/ IsLatin(c)

\* Index of the first close at or after j with no line terminator before
\* it, or 0: where the lazy ".*?" followed by the closing character ends.
RECURSIVE ClosingAt(_, _, _)
ClosingAt(t, close, j) ==
  IF j > Len(t) THEN 0
  ELSE IF t[j] = close THEN j
  ELSE IF IsLineTerminator(t[j]) THEN 0
  ELSE ClosingAt(t, close, j + 1)

\* .replace(/\[.*?\]/g, "") and .replace(/\(.*?\)/g, "")
RECURSIVE StripEnclosedFrom(_, _, _, _)
StripEnclosedFrom(t, open, close, i) ==
  IF i > Len(t) THEN <<>>
  ELSE LET e == IF t[i] = open THEN ClosingAt(t, close, i + 1) ELSE 0
       IN  IF e > 0 THEN StripEnclosedFrom(t, open, close, e + 1)
           ELSE <<t[i]>> \o StripEnclosedFrom(t, open, close, i + 1)

\* The four replacements every mode starts with (lines 450-454).
stripAnnotations(t) ==
  ReplaceClass(StripEnclosedFrom(StripEnclosedFrom(t, P.lbrack, P.rbrack, 1),
                                 P.lparen, P.rparen, 1),
               {P.pipe, P.slash}, <<>>)
\* Mutant: only the ASCII comma becomes the separator.
unifySeparatorsAsciiOnly(t) == ReplaceClass(t, {P.comma}, <<P.fwpipe>>)
unifySeparators(t) == ReplaceClass(t, {P.comma, P.fwcomma}, <<P.fwpipe>>)

\* .replace(/\s+/g, " ")
RECURSIVE WsRunsToSpaceFrom(_, _)
WsRunsToSpaceFrom(t, i) ==
  IF i > Len(t) THEN <<>>
  ELSE IF IsSpace(t[i])
       THEN <<W.SP>> \o WsRunsToSpaceFrom(t, i + LeadSpaces(t, i))
       ELSE <<t[i]>> \o WsRunsToSpaceFrom(t, i + 1)

\* .replace(/\s{2,}/g, " ")
RECURSIVE WsPairsToSpaceFrom(_, _)
WsPairsToSpaceFrom(t, i) ==
  IF i > Len(t) THEN <<>>
  ELSE IF LeadSpaces(t, i) >= 2
       THEN <<W.SP>> \o WsPairsToSpaceFrom(t, i + LeadSpaces(t, i))
       ELSE <<t[i]>> \o WsPairsToSpaceFrom(t, i + 1)

\* .replace(/([ぁ-んァ-ヶ一-龠々〆ヵヶ])\s+([ぁ-んァ-ヶ一-龠々〆ヵヶ])/g, "$1$2")
\* The scan goes on after the second character of a match.
RECURSIVE TightenKanaFrom(_, _)
TightenKanaFrom(t, i) ==
  IF i > Len(t) THEN <<>>
  ELSE LET n == LeadSpaces(t, i + 1)
       IN  IF /\ IsJapanese(t[i]) /\ n >= 1 /\ i + 1 + n <= Len(t)
              /\ IsJapanese(t[i + 1 + n])
           THEN <<t[i], t[i + 1 + n]>> \o TightenKanaFrom(t, i + 2 + n)
           ELSE <<t[i]>> \o TightenKanaFrom(t, i + 1)

\* .replace(/\s+([、。！？])/g, "$1")
RECURSIVE DropWsBeforePunctFrom(_, _)
DropWsBeforePunctFrom(t, i) ==
  IF i > Len(t) THEN <<>>
  ELSE LET n == LeadSpaces(t, i)
       IN  IF n >= 1 /\ i + n <= Len(t) /\ IsJapanesePunct(t[i + n])
           THEN <<t[i + n]>> \o DropWsBeforePunctFrom(t, i + n + 1)
           ELSE <<t[i]>> \o DropWsBeforePunctFrom(t, i + 1)

\* .replace(/([、。！？])\s+/g, "$1")
RECURSIVE DropWsAfterPunctFrom(_, _)
DropWsAfterPunctFrom(t, i) ==
  IF i > Len(t) THEN <<>>
  ELSE IF IsJapanesePunct(t[i])
       THEN <<t[i]>> \o DropWsAfterPunctFrom(t, i + 1 + LeadSpaces(t, i + 1))
       ELSE <<t[i]>> \o DropWsAfterPunctFrom(t, i + 1)

\* .replace(/ー{2,}/g, "ー")
RECURSIVE CollapseLongMarksFrom(_, _)
CollapseLongMarksFrom(t, i) ==
  IF i > Len(t) THEN <<>>
  ELSE IF t[i] = K.CHO /\ i > 1 /\ t[i - 1] = K.CHO
       THEN CollapseLongMarksFrom(t, i + 1)
       ELSE <<t[i]>> \o CollapseLongMarksFrom(t, i + 1)

\* .replace(/っ\s+([ぁ-んァ-ヶA-Za-z])/g, "っ$1")
RECURSIVE JoinSmallTsuFrom(_, _)
JoinSmallTsuFrom(t, i) ==
  IF i > Len(t) THEN <<>>
  ELSE LET n == LeadSpaces(t, i + 1)
       IN  IF /\ t[i] = H.sTU /\ n >= 1 /\ i + 1 + n <= Len(t)
              /\ IsKanaOrLatin(t[i + 1 + n])
           THEN <<t[i], t[i + 1 + n]>> \o JoinSmallTsuFrom(t, i + 2 + n)
           ELSE <<t[i]>> \o JoinSmallTsuFrom(t, i + 1)

\* .replace(/([、。！？])\s*/g, "$1 ")
RECURSIVE SpaceAfterPunctFrom(_, _)
SpaceAfterPunctFrom(t, i) ==
  IF i > Len(t) THEN <<>>
  ELSE IF IsJapanesePunct(t[i])
       THEN <<t[i], W.SP>> \o SpaceAfterPunctFrom(t, i + 1 + LeadSpaces(t, i + 1))
       ELSE <<t[i]>> \o SpaceAfterPunctFrom(t, i + 1)

\* Length of the run of hiragana starting at i.
RECURSIVE HiraganaRun(_, _)
HiraganaRun(t, i) ==
  IF i <= Len(t) /\ IsHiragana(t[i]) THEN 1 + HiraganaRun(t, i + 1) ELSE 0

\* for (i = 0; i < m.length; i += 5) chunks.push(m.slice(i, i + 5))
RECURSIVE ChunksOfFive(_, _)
ChunksOfFive(m, i) ==
  IF i > Len(m) THEN <<>>
  ELSE <<SubSeq(m, i, IF i + 4 <= Len(m) THEN i + 4 ELSE Len(m))>>
         \o ChunksOfFive(m, i + 5)

\* .replace(/([ぁ-ん]{10,})/g, m => chunks.join(" "))
RECURSIVE ChunkHiraganaFrom(_, _)
ChunkHiraganaFrom(t, i) ==
  IF i > Len(t) THEN <<>>
  ELSE LET r == HiraganaRun(t, i)
       IN  IF r >= 10
           THEN Join(ChunksOfFive(SubSeq(t, i, i + r - 1), 1), <<W.SP>>)
                  \o ChunkHiraganaFrom(t, i + r)
           ELSE <<t[i]>> \o ChunkHiraganaFrom(t, i + 1)

\* _renderDisplayPlainText(coreText, mode)
renderDisplayPlainText(text0, m) ==
  IF text0 = <<>> THEN <<>>
  ELSE LET t == unifySeparators(stripAnnotations(text0))
       IN  IF m = "precise" THEN trim(t)
           ELSE IF m = "basic"
           THEN LET b1 == trim(WsRunsToSpaceFrom(t, 1))
                    b2 == TightenKanaFrom(b1, 1)
                    b3 == DropWsBeforePunctFrom(b2, 1)
                    b4 == DropWsAfterPunctFrom(b3, 1)
                    b5 == CollapseLongMarksFrom(b4, 1)
                    b6 == JoinSmallTsuFrom(b5, 1)
                IN  trim(WsPairsToSpaceFrom(b6, 1))
           ELSE LET n1 == WsRunsToSpaceFrom(t, 1)
                    n2 == SpaceAfterPunctFrom(n1, 1)
                    n3 == ChunkHiraganaFrom(n2, 1)
                IN  trim(WsPairsToSpaceFrom(n3, 1))

\* The character reference at i, or the character itself: the references
\* escapeHtml writes are the ones read back.
EntityAt(t, i) ==
  IF MatchAt(t, <<P.amp, L.l, L.t, P.semi>>, i) THEN [c |-> P.lt, n |-> 4]
  ELSE IF MatchAt(t, <<P.amp, L.g, L.t, P.semi>>, i) THEN [c |-> P.gt, n |-> 4]
  ELSE IF MatchAt(t, <<P.amp, L.a, L.m, L.p, P.semi>>, i) THEN [c |-> P.amp, n |-> 5]
  ELSE IF MatchAt(t, <<P.amp, L.n, L.b, L.s, L.p, P.semi>>, i)
       THEN [c |-> W.NBSP, n |-> 6]
  ELSE [c |-> t[i], n |-> 1]

\* tpl.innerHTML = t, read in document order: the tags of the span elements
\* and the text nodes between them, character references decoded.  An end
\* tag with no open element is dropped; elements still open at the end are
\* closed.  txt is the text node being read, depth the open elements.
RECURSIVE ParseMarkupFrom(_, _, _, _)
ParseMarkupFrom(t, i, txt, depth) ==
  LET flush == IF txt = <<>> THEN <<>> ELSE <<[kind |-> "text", value |-> txt]>>
  IN  IF i > Len(t)
      THEN flush \o [k \in 1..depth |-> [kind |-> "tag", value |-> SpanClose]]
      ELSE IF MatchAt(t, SpanOpen, i)
      THEN flush \o <<[kind |-> "tag", value |-> SpanOpen]>>
             \o ParseMarkupFrom(t, i + Len(SpanOpen), <<>>, depth + 1)
      ELSE IF MatchAt(t, SpanClose, i)
      THEN IF depth = 0 THEN ParseMarkupFrom(t, i + Len(SpanClose), txt, depth)
           ELSE flush \o <<[kind |-> "tag", value |-> SpanClose]>>
                  \o ParseMarkupFrom(t, i + Len(SpanClose), <<>>, depth - 1)
      ELSE LET e == EntityAt(t, i)
           IN  ParseMarkupFrom(t, i + e.n, Append(txt, e.c), depth)

\* Mutant: the characters | and / are taken out of the tags as well as out
\* of the text.
RECURSIVE SerializeWalkedTagsToo(_, _, _)
SerializeWalkedTagsToo(nodes, m, i) ==
  IF i > Len(nodes) THEN <<>>
  ELSE (IF nodes[i].kind = "tag"
        THEN ReplaceClass(nodes[i].value, {P.pipe, P.slash}, <<>>)
        ELSE escapeHtml(renderDisplayPlainText(nodes[i].value, m)))
         \o SerializeWalkedTagsToo(nodes, m, i + 1)

\* The walk over the text nodes (lines 491-494) and tpl.innerHTML read back.
RECURSIVE SerializeWalkedFrom(_, _, _)
SerializeWalkedFrom(nodes, m, i) ==
  IF i > Len(nodes) THEN <<>>
  ELSE (IF nodes[i].kind = "tag" THEN nodes[i].value
        ELSE escapeHtml(renderDisplayPlainText(nodes[i].value, m)))
         \o SerializeWalkedFrom(nodes, m, i + 1)

\* renderDisplay(coreText, mode)
renderDisplay(text0, m) ==
  IF text0 = <<>> THEN <<>>
  ELSE IF \E i \in 1..Len(text0) : text0[i] = P.lt
       THEN SerializeWalkedFrom(ParseMarkupFrom(text0, 1, <<>>, 0), m, 1)
       ELSE renderDisplayPlainText(text0, m)

(***************************************************************************)
(* SpecDisplay: renderDisplay on a text the page hands it: kana with       *)
(* separators, white space and annotations, and the output of              *)
(* highlightDifferences (escaped words, some wrapped in the changed        *)
(* marker).  The text is put together piece by piece.                      *)
(***************************************************************************)
MaxPieces == 3

DisplayChars ==
  {K.A, P.comma, P.fwcomma, W.SP, W.IDSP, K.CHO, P.touten, H.sTU, P.lparen,
   P.rparen}
MarkupPieces ==
  {Marked(<<K.A>>), Marked(<<P.lt, P.comma>>), escapeHtml(<<P.lt>>)}
\* the spec's example: ア,イ  ウ
CommaExample == <<K.A, P.comma, K.I, W.SP, W.SP, K.U>>
DisplayModes == {"basic", "natural", "precise"}

InitDisplay ==
  /\ coreText \in {<<>>, CommaExample} /\ nPieces = 0
  /\ mode \in DisplayModes /\ shown = <<>> /\ dpc = "typing"
  /\ WordIdle /\ LineIdle /\ VocalIdle /\ LyricsIdle /\ DiffIdle /\ PageIdle
  /\ ModeIdle /\ AttrIdle /\ PureIdle

AddText ==
  /\ dpc = "typing" /\ nPieces < MaxPieces
  /\ \E c \in DisplayChars : coreText' = Append(coreText, c)
  /\ nPieces' = nPieces + 1
  /\ UNCHANGED <<mode, shown, dpc>>
  /\ UNCHANGED <<wordVars, lineVars, vocalVars, lyricsVars, diffVars, pageVars,
                 modeVars, attrVars, pureVars>>

AddMarkup ==
  /\ dpc = "typing" /\ nPieces < MaxPieces
  /\ \E p \in MarkupPieces : coreText' = coreText \o p
  /\ nPieces' = nPieces + 1
  /\ UNCHANGED <<mode, shown, dpc>>
  /\ UNCHANGED <<wordVars, lineVars, vocalVars, lyricsVars, diffVars, pageVars,
                 modeVars, attrVars, pureVars>>

Render ==
  /\ dpc = "typing"
  /\ shown' = renderDisplay(coreText, mode)
  /\ dpc' = "rendered"
  /\ UNCHANGED <<coreText, nPieces, mode>>
  /\ UNCHANGED <<wordVars, lineVars, vocalVars, lyricsVars, diffVars, pageVars,
                 modeVars, attrVars, pureVars>>

NextDisplay == AddText \/ AddMarkup \/ Render

SpecDisplay == InitDisplay /\ [][NextDisplay]_vars

CountIn(s, set) == Cardinality({i \in 1..Len(s) : s[i] \in set})
Commas == {P.comma, P.fwcomma}
IsPlainText(s) == \A i \in 1..Len(s) : s[i] # P.lt
NoDoubledWhitespace(s) ==
  \A i \in 1..(Len(s) - 1) : ~(IsSpace(s[i]) /\ IsSpace(s[i + 1]))

\* C19 (as stated): in basic mode, for every plain text, every ASCII or
\* full-width comma of the input is replaced by the separator ｜ (the output
\* has no comma and one separator per comma of the input) and the output
\* has no run of two or more white-space characters.
C19_EveryCommaReplaced ==
  (dpc = "rendered" /\ mode = "basic" /\ IsPlainText(coreText))
    => /\ CountIn(shown, Commas) = 0
       /\ CountIn(shown, {P.fwpipe}) = CountIn(coreText, Commas)
       /\ NoDoubledWhitespace(shown)

\* C19 (amended): in basic mode, for every plain text, the output has no
\* comma and no run of two or more white-space characters, and it has one
\* separator ｜ for each comma of the input that stands outside a bracketed
\* or parenthesised annotation; the commas inside an annotation are removed
\* with it.
C19_CommasOutsideAnnotationsReplaced ==
  (dpc = "rendered" /\ mode = "basic" /\ IsPlainText(coreText))
    => /\ CountIn(shown, Commas) = 0
       /\ CountIn(shown, {P.fwpipe})
            = CountIn(stripAnnotations(coreText), Commas)
       /\ NoDoubledWhitespace(shown)
C19_Witness ==
  /\ dpc = "rendered" /\ mode = "basic"
  /\ coreText = CommaExample \o <<P.lparen, P.fwcomma, P.rparen>>
  /\ shown = <<K.A, P.fwpipe, K.I, K.U>>

\* The tags of a markup string, in order: each piece from a "<" to the next
\* ">" (in the strings at hand a "<" of the text is written "&lt;").
RECURSIVE TagEnd(_, _)
TagEnd(s, j) ==
  IF j > Len(s) THEN Len(s) ELSE IF s[j] = P.gt THEN j ELSE TagEnd(s, j + 1)
RECURSIVE TagsFrom(_, _)
TagsFrom(s, i) ==
  IF i > Len(s) THEN <<>>
  ELSE IF s[i] = P.lt
       THEN <<SubSeq(s, i, TagEnd(s, i))>> \o TagsFrom(s, TagEnd(s, i) + 1)
       ELSE TagsFrom(s, i + 1)

\* C20: when the input holds markup, renderDisplay changes the values of
\* text nodes only: in every mode the tags of the output, with their names,
\* attributes and order (hence nesting), are those of the input.
C20_TagsUntouched ==
  (dpc = "rendered" /\ ~IsPlainText(coreText))
    => TagsFrom(shown, 1) = TagsFrom(coreText, 1)
C20_Witness ==
  /\ dpc = "rendered" /\ mode = "basic"
  /\ coreText = Marked(<<P.lt, P.comma>>) \o <<W.SP>> \o Marked(<<K.A>>)
  /\ shown = SpanOpen \o <<P.amp, L.l, L.t, P.semi, P.fwpipe>> \o SpanClose
               \o Marked(<<K.A>>)
  /\ TagsFrom(shown, 1) = <<SpanOpen, SpanClose, SpanOpen, SpanClose>>

\* C22: normalizeLyricLine expands 'n to the word "and" where it stands as a
\* word of its own, also between spaces with a closing apostrophe: the
\* words of the line "rock 'n' roll" are rock, and, roll.
C22_RockAndRoll ==
  (path = "optimized" /\ lpc \in {"loop", "done"} /\ line = RockNRoll)
    => FilterNonEmpty(words, 1)
         = << <<L.r, L.o, L.c, L.k>>, <<L.a, L.n, L.d>>, <<L.r, L.o, L.l, L.l>> >>

\* Number of places of s where pat begins.
Occurrences(s, pat) == Cardinality({i \in 1..Len(s) : MatchAt(s, pat, i)})

\* C23: the replacements give each clipped-word substring exactly one extra
\* mora: every モア and every モォア (with or without ー) of the input ends up
\* as モォアァ, so the output has one ァ for each of them and none is
\* elongated twice.
C23_OneExtraMora ==
  vpc \in {"substituted", "styled"}
    => /\ CountIn(substituted, {K.sA})
            = Occurrences(lineKana, <<K.MO, K.A>>)
                + Occurrences(lineKana, <<K.MO, K.sO, K.A>>)
       /\ Occurrences(substituted, <<K.MO, K.sO, K.A, K.sA>>)
            = CountIn(substituted, {K.sA})

\* s has a kana or kanji character followed by white space and then another
\* kana or kanji character.
SpacedKanaIn(s) ==
  \E i \in 1..Len(s) : \E j \in (i + 2)..Len(s) :
    /\ IsJapanese(s[i]) /\ IsJapanese(s[j])
    /\ \A k \in (i + 1)..(j - 1) : IsSpace(s[k])

\* C24: after the display formatter has run in basic mode on plain text, no
\* white space remains between two adjacent kana or kanji characters,
\* runs of single-character tokens included.
C24_NoSpaceBetweenKana ==
  (dpc = "rendered" /\ mode = "basic" /\ IsPlainText(coreText))
    => ~SpacedKanaIn(shown)

\* C25: for two non-empty strings the output of highlightDifferences is the
\* optimized words, each once and in order, joined by single spaces: a
\* separator is pushed only between two emitted words, so the output has no
\* leading or trailing space and no two separators in a row, also when the
\* standard string has more words than the optimized one.
C25_SeparatorsOnlyBetweenWords ==
  (hpc = "done" /\ standard # <<>> /\ singkana # <<>>)
    => /\ Len(EmittedWords) = Len(singkanaWords)
       /\ Len(result) = IF singkanaWords = <<>> THEN 0
                        ELSE 2 * Len(singkanaWords) - 1
       /\ \A i \in 1..Len(result) : (result[i] = <<W.SP>>) <=> (i % 2 = 0)
       /\ html = Join(EmittedWords, <<W.SP>>)

\* highlightDifferences is synchronous code: once called, its loop runs
\* until its condition is false and the function returns.
SpecDiffFair == SpecDiff /\ WF_vars(NextDiff)

Larger(a, b) == IF a >= b THEN a ELSE b

\* C26: the two-cursor loop of highlightDifferences terminates: every
\* iteration advances at least one cursor and moves none back, the larger
\* of the two cursors grows by exactly one in each iteration, neither cursor
\* exceeds the length of its list, so the loop ends after at most
\* max(standard words, optimized words) iterations, and the function
\* returns.
C26_LoopTerminates ==
  /\ [][(hpc = "loop" /\ hpc' = "loop")
          => /\ sIdx' >= sIdx /\ kIdx' >= kIdx
             /\ Larger(sIdx', kIdx') = Larger(sIdx, kIdx) + 1]_vars
  /\ [](/\ sIdx <= Len(standardWords) /\ kIdx <= Len(singkanaWords)
        /\ Larger(sIdx, kIdx) <= Larger(Len(standardWords), Len(singkanaWords)))
  /\ <>(hpc = "done")
C26_Witness ==
  /\ hpc = "done"
  /\ standardWords = <<<<K.A>>, <<K.I, K.CHO>>>> /\ singkanaWords = <<<<P.lt>>>>
  /\ sIdx = 2 /\ kIdx = 1

\* The events tracked by the latest click on convert.
RECURSIVE LastClickFrom(_, _)
LastClickFrom(log, i) ==
  IF i = 0 THEN <<>>
  ELSE IF log[i] = "convert_click" THEN SubSeq(log, i, Len(log))
  ELSE LastClickFrom(log, i - 1)

\* C30: convert_success is tracked for a click only if the conversion run
\* by that click succeeded with at least one line: a call that returns
\* early (blank input, engine not loaded, thrown error) leaves no non-empty
\* list of an earlier call behind and tracks convert_click alone.
C30_SuccessOnlyForThisClick ==
  nClicks > 0
    => /\ LastClickFrom(tracked, Len(tracked))[1] = "convert_click"
       /\ resultPanel \in {"enterLyrics", "engineMissing", "convertError"}
            => /\ currentConvertedLines = <<>>
               /\ LastClickFrom(tracked, Len(tracked)) = <<"convert_click">>
       /\ Len(LastClickFrom(tracked, Len(tracked))) = 2 => resultPanel = "results"

(***************************************************************************)
(* SpecMode: the plan gate and the display-mode selector of the studio     *)
(* page, over several loads of the page in one browser profile.            *)
(* localStorage outlives a load; PLAN, the selector and the converted      *)
(* lines do not.  serverPlan is the plan /api/me answers for the session.  *)
(***************************************************************************)
MaxModeSteps == 4

Plans == {"free", "pro"}

\* PLAN.tier === "pro"
isPro == planTier = "pro"

\* The script's top level and the DOMContentLoaded handler, lines 4-14 and
\* 96-151: PLAN.tier starts as "free", loadUserPlan() is started and the
\* saved display mode is put into the selector.
LoadedPage ==
  /\ serverPlan' \in Plans
  /\ planTier' = "free" /\ planPc' = "pending"
  /\ dmValue' = IF savedDisplayMode # "" THEN savedDisplayMode ELSE "basic"
  /\ hasConvertedLines' = FALSE /\ renderedWith' = "none"

InitMode ==
  /\ serverPlan \in Plans
  /\ planTier = "free" /\ planPc = "pending"
  /\ dmValue = "basic" /\ savedDisplayMode = ""
  /\ hasConvertedLines = FALSE /\ renderedWith = "none"
  /\ nRenders = 0 /\ picked = <<>> /\ nModeSteps = 0
  /\ WordIdle /\ LineIdle /\ VocalIdle /\ LyricsIdle /\ DiffIdle /\ PageIdle
  /\ DisplayIdle /\ AttrIdle /\ PureIdle

\* the page is opened again in the same browser profile
PageLoad ==
  /\ nModeSteps < MaxModeSteps
  /\ nModeSteps' = nModeSteps + 1
  /\ LoadedPage
  /\ UNCHANGED <<savedDisplayMode, nRenders, picked>>
  /\ UNCHANGED <<wordVars, lineVars, vocalVars, lyricsVars, diffVars, pageVars,
                 displayVars, attrVars, pureVars>>

\* loadUserPlan after its fetch: lines 30-36 when the answer is ok, the
\* catch of line 68 (or an answer that is not ok) otherwise
PlanFetched ==
  /\ planPc = "pending"
  /\ planPc' = "loaded"
  /\ \E ok \in BOOLEAN : planTier' = IF ok THEN serverPlan ELSE planTier
  /\ UNCHANGED <<serverPlan, dmValue, savedDisplayMode, hasConvertedLines,
                 renderedWith, nRenders, picked, nModeSteps>>
  /\ UNCHANGED <<wordVars, lineVars, vocalVars, lyricsVars, diffVars, pageVars,
                 displayVars, attrVars, pureVars>>

\* Mutant: the choice is written to localStorage before the guard is asked.
ChangeModePersistsFirst ==
  /\ nModeSteps < MaxModeSteps
  /\ nModeSteps' = nModeSteps + 1
  /\ \E m \in DisplayModes \ {dmValue} :
       /\ picked' = Append(picked, m)
       /\ savedDisplayMode' = m
       /\ IF ~isPro /\ m = "precise"
          THEN /\ dmValue' = "natural"
               /\ UNCHANGED <<renderedWith, nRenders>>
          ELSE /\ dmValue' = m
               /\ IF hasConvertedLines
                  THEN renderedWith' = m /\ nRenders' = nRenders + 1
                  ELSE UNCHANGED <<renderedWith, nRenders>>
  /\ UNCHANGED <<serverPlan, planTier, planPc, hasConvertedLines>>
  /\ UNCHANGED <<wordVars, lineVars, vocalVars, lyricsVars, diffVars, pageVars,
                 displayVars, attrVars, pureVars>>

\* The change listener of lines 143-149 with guardDisplayMode (73-84) and
\* __displayModeChangeHandler (501-503), for the mode m the user picks.
ChangeMode ==
  /\ nModeSteps < MaxModeSteps
  /\ nModeSteps' = nModeSteps + 1
  /\ \E m \in DisplayModes \ {dmValue} :
       /\ picked' = Append(picked, m)
       /\ IF ~isPro /\ m = "precise"
          THEN /\ dmValue' = "natural"
               /\ UNCHANGED <<savedDisplayMode, renderedWith, nRenders>>
          ELSE /\ dmValue' = m
               /\ savedDisplayMode' = m
               /\ IF hasConvertedLines
                  THEN renderedWith' = m /\ nRenders' = nRenders + 1
                  ELSE UNCHANGED <<renderedWith, nRenders>>
  /\ UNCHANGED <<serverPlan, planTier, planPc, hasConvertedLines>>
  /\ UNCHANGED <<wordVars, lineVars, vocalVars, lyricsVars, diffVars, pageVars,
                 displayVars, attrVars, pureVars>>

\* a conversion with at least one line: the blocks are rendered with
\* __getDisplayMode(), the value of the selector (lines 676, 1002, 1020)
ConvertRender ==
  /\ nModeSteps < MaxModeSteps
  /\ nModeSteps' = nModeSteps + 1
  /\ hasConvertedLines' = TRUE
  /\ renderedWith' = dmValue
  /\ nRenders' = nRenders + 1
  /\ UNCHANGED <<serverPlan, planTier, planPc, dmValue, savedDisplayMode, picked>>
  /\ UNCHANGED <<wordVars, lineVars, vocalVars, lyricsVars, diffVars, pageVars,
                 displayVars, attrVars, pureVars>>

NextMode == PageLoad \/ PlanFetched \/ ChangeMode \/ ConvertRender

SpecMode == InitMode /\ [][NextMode]_vars

C28_FreeNeverRendersPrecise ==
  serverPlan = "free" => /\ planTier = "free"
                         /\ renderedWith # "precise"

(***************************************************************************)
(* SpecAttr: captureAttributionOnce of analytics.js, run once by each page *)
(* load of one browser profile.  The loads (tabs) share localStorage; the  *)
(* callback that stores the sent flag runs when the request's promise is   *)
(* resolved, a later step of the load's event loop.                        *)
(***************************************************************************)
MaxLoads == 3

Loads == 1..MaxLoads

InitAttr ==
  /\ hasAttr \in [Loads -> BOOLEAN]
  /\ apc = [l \in Loads |-> "loading"]
  /\ attrSent = FALSE /\ nAttrPosts = 0
  /\ WordIdle /\ LineIdle /\ VocalIdle /\ LyricsIdle /\ DiffIdle /\ PageIdle
  /\ DisplayIdle /\ ModeIdle /\ PureIdle

\* Lines 79-105: return when the URL has no attribution parameter or the
\* sent flag is "1", else issue the request.
CaptureAttribution(l) ==
  /\ apc[l] = "loading"
  /\ IF ~hasAttr[l] \/ attrSent
     THEN /\ apc' = [apc EXCEPT ![l] = "done"]
          /\ UNCHANGED nAttrPosts
     ELSE /\ nAttrPosts' = nAttrPosts + 1
          /\ apc' = [apc EXCEPT ![l] = "posting"]
  /\ UNCHANGED <<hasAttr, attrSent>>
  /\ UNCHANGED <<wordVars, lineVars, vocalVars, lyricsVars, diffVars, pageVars,
                 displayVars, modeVars, pureVars>>

\* Lines 106-108: the promise of postJson is resolved (it never rejects) and
\* the callback stores the sent flag.
AttributionPosted(l) ==
  /\ apc[l] = "posting"
  /\ attrSent' = TRUE
  /\ apc' = [apc EXCEPT ![l] = "done"]
  /\ UNCHANGED <<hasAttr, nAttrPosts>>
  /\ UNCHANGED <<wordVars, lineVars, vocalVars, lyricsVars, diffVars, pageVars,
                 displayVars, modeVars, pureVars>>

NextAttr ==
  \E l \in Loads : CaptureAttribution(l) \/ AttributionPosted(l)

SpecAttr == InitAttr /\ [][NextAttr]_vars

\* C29: the attribution parameters are sent to /api/attribution at most
\* once per browser profile: over any interleaving of page loads, two loads
\* that start before the first request has completed included, at most one
\* request is issued, and once the sent flag is stored no later load sends.
C29_AtMostOneAttributionPost ==
  /\ [](nAttrPosts <= 1)
  /\ [][attrSent => nAttrPosts' = nAttrPosts]_vars


(***************************************************************************)
(* SpecPure: a series of SingKanaCore.convertLyrics calls over the state   *)
(* of the module.  WORD_OVERRIDES is the only object that outlives a call  *)
(* (patternMap and charMap are built anew inside each romanToKana call,    *)
(* the regular expressions are literals); it is a variable here, overrides,*)
(* and the conversion reads the table it finds there.                      *)
(***************************************************************************)
MaxCalls == 3

PureInputs ==
  {<<>>, wMe, wYou, wMore, <<L.a>>, <<K.A>>}

\* Object.prototype.hasOwnProperty.call(tbl, lower) and tbl[lower]
HasOverrideIn(tbl, lower) == \E k \in 1..Len(tbl) : tbl[k][1] = lower
OverrideIn(tbl, lower) ==
  tbl[CHOOSE k \in 1..Len(tbl) : tbl[k][1] = lower][2]

\* tbl[key] = value
TableWith(tbl, key, value) ==
  SelectSeq(tbl, LAMBDA e : e[1] # key) \o << <<key, value>> >>

\* Lines 346-353 over the table tbl
kanaCoreOver(tbl, core) ==
  LET lower == toLowerCase(core)
  IN  IF HasOverrideIn(tbl, lower) THEN OverrideIn(tbl, lower)
      ELSE romanToKana(core)

\* The word loop of englishToKanaLine over the table tbl, from word i on
RECURSIVE KanaWordsOver(_, _, _)
KanaWordsOver(tbl, raws, i) ==
  IF i > Len(raws) THEN <<>>
  ELSE LET raw == raws[i]
       IN  (IF raw = <<>> THEN <<>>
            ELSE IF coreOf(raw) = <<>> THEN <<leadingPunc(raw) \o trailingPunc(raw)>>
            ELSE <<leadingPunc(raw) \o kanaCoreOver(tbl, coreOf(raw))
                     \o trailingPunc(raw)>>)
           \o KanaWordsOver(tbl, raws, i + 1)

\* englishToKanaLine over the table tbl
englishToKanaLineOver(tbl, line0) ==
  LET norm == normalizeLyricLine(line0)
  IN  IF trim(norm) = <<>> THEN <<>>
      ELSE finishKanaLine(KanaWordsOver(tbl, SplitSpaces(norm), 1))

\* The loop of convertLyrics over the table tbl: the lines and their numbers
\* do not depend on the table, the kana of a line with Latin letters does.
RECURSIVE ConvertLinesOver(_, _, _)
ConvertLinesOver(tbl, r, i) ==
  IF i > Len(r) THEN <<>>
  ELSE <<[lineNo |-> r[i].lineNo, en |-> r[i].en,
          kana |-> IF hasLatin(r[i].en) THEN englishToKanaLineOver(tbl, r[i].en)
                   ELSE r[i].kana]>>
       \o ConvertLinesOver(tbl, r, i + 1)

convertLyricsOver(tbl, t) == ConvertLinesOver(tbl, convertLyrics(t), 1)

InitPure ==
  /\ overrides = WORD_OVERRIDES /\ calls = <<>>
  /\ WordIdle /\ LineIdle /\ VocalIdle /\ LyricsIdle /\ DiffIdle /\ PageIdle
  /\ DisplayIdle /\ ModeIdle /\ AttrIdle

\* Mutant: a call keeps the kana of a one-word text in the override table.
ConvertCallMemoizing ==
  /\ Len(calls) < MaxCalls
  /\ \E t \in PureInputs :
       LET r == convertLyricsOver(overrides, t)
       IN  /\ calls' = Append(calls, [text |-> t, result |-> r])
           /\ overrides' = IF Len(r) = 1 /\ coreOf(t) = t
                           THEN TableWith(overrides, toLowerCase(t), r[1].kana)
                           ELSE overrides
  /\ UNCHANGED <<wordVars, lineVars, vocalVars, lyricsVars, diffVars, pageVars,
                 displayVars, modeVars, attrVars>>

\* One call of convertLyrics(t): it reads the table and writes nothing.
ConvertCall ==
  /\ Len(calls) < MaxCalls
  /\ \E t \in PureInputs :
       calls' = Append(calls, [text |-> t, result |-> convertLyricsOver(overrides, t)])
  /\ UNCHANGED overrides
  /\ UNCHANGED <<wordVars, lineVars, vocalVars, lyricsVars, diffVars, pageVars,
                 displayVars, modeVars, attrVars>>

NextPure == ConvertCall

SpecPure == InitPure /\ [][NextPure]_vars

=============================================================================
